---- MODULE Spec2Model ----
(***************************************************************************)
(* A model of the React assessment runner: the grading pipeline of        *)
(* components/CodeRunner.tsx (run / reset / question change, the two      *)
(* preview roots and the deferred steps of a run) and the comparison and  *)
(* scoring functions of utils/domCompare.ts.  Spec is CodeRunner under    *)
(* its own controls, SpecHost is CodeRunner driven through its handle by  *)
(* pages/AssessmentRunner.tsx; SpecReset, SpecPreview, SpecBundle and     *)
(* SpecFiles are CodeRunner under some of its controls (run and reset on  *)
(* one question, run and the preview switches, runs of a bundle of two    *)
(* files, the file list), SpecCycle is the run cycle with fair timers,    *)
(* SpecErrorFlag has runs with the files changed only between them;       *)
(* SpecPage is AssessmentRunner with its navigation, submissions and      *)
(* final submission, SpecAuth is contexts/AuthContext.tsx; SpecScore,     *)
(* SpecCompare and SpecVisual apply calculateAssessmentScore,             *)
(* structuralEqual and visualSimilarity to bounded inputs.                *)
(*                                                                        *)
(* Numbers that the program holds as doubles are held here as exact       *)
(* rationals [n |-> numerator, d |-> denominator] with d > 0.  Texts are  *)
(* sequences of one-character strings.                                    *)
(***************************************************************************)
EXTENDS Integers, Sequences, FiniteSets, TLC

NULL == "null"

Max(a, b) == IF a >= b THEN a ELSE b
Min(a, b) == IF a <= b THEN a ELSE b
Abs(a) == IF a >= 0 THEN a ELSE 0 - a

(***************************************************************************)
(* Rationals                                                              *)
(***************************************************************************)
Rat(n, d) == [n |-> n, d |-> d]
RatInt(k) == Rat(k, 1)
RatLT(a, b) == a.n * b.d < b.n * a.d
RatLE(a, b) == a.n * b.d <= b.n * a.d
RatEQ(a, b) == a.n * b.d = b.n * a.d
RatAdd(a, b) == Rat(a.n * b.d + b.n * a.d, a.d * b.d)
RatMul(a, b) == Rat(a.n * b.n, a.d * b.d)
RatDiv(a, k) == Rat(a.n, a.d * k)
RatMax(a, b) == IF RatLT(a, b) THEN b ELSE a
RatMin(a, b) == IF RatLT(b, a) THEN b ELSE a
\* Math.round: the nearest integer, a tie going up
MathRound(a) == (2 * a.n + a.d) \div (2 * a.d)

(***************************************************************************)
(* utils/domCompare.ts: tunable weights                                   *)
(***************************************************************************)
STRUCTURE_WEIGHT == 70
VISUAL_WEIGHT == 30
STRUCTURE_TOLERANCE_CHILD_DIFF == 1
TEXT_SIM_THRESHOLD_STRICT == Rat(8, 10)
TEXT_SIM_THRESHOLD_LENIENT == Rat(5, 10)

clamp01(x) == RatMax(RatInt(0), RatMin(RatInt(1), x))
clamp(x, lo, hi) == RatMax(RatInt(lo), RatMin(RatInt(hi), x))

(***************************************************************************)
(* Texts                                                                  *)
(***************************************************************************)
Digits == {"0", "1", "2", "3", "4", "5", "6", "7", "8", "9"}
Whitespace == {" ", "\n"}
ToLowerChar(c) ==
    CASE c = "A" -> "a" [] c = "B" -> "b" [] c = "C" -> "c" [] c = "H" -> "h"
      [] c = "N" -> "n" [] c = "U" -> "u" [] c = "M" -> "m" [] c = "R" -> "r"
      [] c = "E" -> "e" [] OTHER -> c

RECURSIVE CollapseWs(_)
\* text.replace(/\s+/g, ' ')
CollapseWs(s) ==
    IF s = <<>> THEN <<>>
    ELSE IF Head(s) \in Whitespace
         THEN IF Len(s) > 1 /\ s[2] \in Whitespace
              THEN CollapseWs(Tail(s))
              ELSE <<" ">> \o CollapseWs(Tail(s))
         ELSE <<Head(s)>> \o CollapseWs(Tail(s))

RECURSIVE TrimLeft(_)
TrimLeft(s) == IF s # <<>> /\ Head(s) \in Whitespace THEN TrimLeft(Tail(s)) ELSE s
RECURSIVE TrimRight(_)
TrimRight(s) ==
    IF s # <<>> /\ s[Len(s)] \in Whitespace THEN TrimRight(SubSeq(s, 1, Len(s) - 1)) ELSE s
Trim(s) == TrimRight(TrimLeft(s))
ToLowerCase(s) == [i \in 1..Len(s) |-> ToLowerChar(s[i])]

normalizeText(text) == ToLowerCase(Trim(CollapseWs(text)))

RECURSIVE CountDigitRuns(_, _)
\* the number of matches of /\d+/g
CountDigitRuns(s, inRun) ==
    IF s = <<>> THEN 0
    ELSE IF Head(s) \in Digits
         THEN (IF inRun THEN 0 ELSE 1) + CountDigitRuns(Tail(s), TRUE)
         ELSE CountDigitRuns(Tail(s), FALSE)
extractNumbers(text) == CountDigitRuns(text, FALSE)

RECURSIVE ReplaceDigitRuns(_, _)
\* text.replace(/\d+/g, 'NUM')
ReplaceDigitRuns(s, inRun) ==
    IF s = <<>> THEN <<>>
    ELSE IF Head(s) \in Digits
         THEN (IF inRun THEN <<>> ELSE <<"N", "U", "M">>) \o ReplaceDigitRuns(Tail(s), TRUE)
         ELSE <<Head(s)>> \o ReplaceDigitRuns(Tail(s), FALSE)

RECURSIVE LevRow(_, _, _, _, _)
\* one row dp[i][0..m] of the table, from the row above it
LevRow(str1, str2, i, prev, row) ==
    LET j == Len(row) IN
    IF j > Len(str1) THEN row
    ELSE LET cell == IF str2[i] = str1[j]
                     THEN prev[j]
                     ELSE Min(prev[j] + 1, Min(row[j] + 1, prev[j + 1] + 1))
         IN LevRow(str1, str2, i, prev, Append(row, cell))

RECURSIVE LevRows(_, _, _, _)
LevRows(str1, str2, i, prev) ==
    IF i > Len(str2) THEN prev
    ELSE LevRows(str1, str2, i + 1, LevRow(str1, str2, i, prev, <<i>>))

\* rows are held 1-based: row[j + 1] is dp[i][j]
levenshteinDistance(str1, str2) ==
    LevRows(str1, str2, 1, [j \in 1..(Len(str1) + 1) |-> j - 1])[Len(str1) + 1]

\* calculateTextSimilarity without the branch for numeric patterns
calculateTextSimilarityNoNumbers(a, b) ==
    IF a = b THEN RatInt(1)
    ELSE IF a = <<>> \/ b = <<>> THEN RatInt(0)
    ELSE LET longer == IF Len(a) > Len(b) THEN a ELSE b
             shorter == IF Len(a) > Len(b) THEN b ELSE a
             dist == levenshteinDistance(longer, shorter)
         IN clamp01(Rat(Len(longer) - dist, Len(longer)))

calculateTextSimilarity(a, b) ==
    IF a = b THEN RatInt(1)
    ELSE IF a = <<>> \/ b = <<>> THEN RatInt(0)
    ELSE IF /\ extractNumbers(a) > 0
            /\ extractNumbers(b) > 0
            /\ ReplaceDigitRuns(a, FALSE) = ReplaceDigitRuns(b, FALSE)
         THEN Rat(9, 10)
    ELSE LET longer == IF Len(a) > Len(b) THEN a ELSE b
             shorter == IF Len(a) > Len(b) THEN b ELSE a
             dist == levenshteinDistance(longer, shorter)
         IN clamp01(Rat(Len(longer) - dist, Len(longer)))

(***************************************************************************)
(* DOM nodes.  A node is a record; an element (nodeType 1) has a tag       *)
(* name, attributes and child nodes, a text node (nodeType 3) has data.    *)
(***************************************************************************)
importantAttrs == <<"id", "class", "type", "href", "src", "role", "aria-label">>
AttrNames == {importantAttrs[i] : i \in 1..Len(importantAttrs)} \cup {"title", "style"}
NoAttrs == [a \in AttrNames |-> NULL]

Txt(data) ==
    [nodeType |-> 3, tagName |-> NULL, attrs |-> NoAttrs, data |-> data, childNodes |-> <<>>]
El(tag, attrs, kids) ==
    [nodeType |-> 1, tagName |-> tag, attrs |-> attrs, data |-> <<>>, childNodes |-> kids]

\* no node at all (null, undefined)
NoNode ==
    [nodeType |-> 0, tagName |-> NULL, attrs |-> NoAttrs, data |-> <<>>, childNodes |-> <<>>]

isElementNode(node) == node.nodeType = 1

ToLowerTag(t) ==
    CASE t = "DIV" -> "div" [] t = "SPAN" -> "span" [] t = "BUTTON" -> "button"
      [] t = "H3" -> "h3" [] t = "PRE" -> "pre" [] t = "P" -> "p" [] OTHER -> t

RECURSIVE textContent(_)
textContent(node) ==
    IF node.nodeType = 3 THEN node.data
    ELSE LET F[i \in 0..Len(node.childNodes)] ==
                 IF i = 0 THEN <<>> ELSE F[i - 1] \o textContent(node.childNodes[i])
         IN F[Len(node.childNodes)]

getAttribute(el, attr) == el.attrs[attr]
getElementChildren(el) == SelectSeq(el.childNodes, LAMBDA n : n.nodeType = 1)
\* Node.isEqualNode: same type, tag, attributes and, in order, equal children
isEqualNode(a, b) == a = b
\* a JavaScript string or null used as a condition: null and '' are false
Truthy(v) == v # NULL /\ v # ""

DiffEntry(type, severity, expected, actual, attribute, index, childDiffs, similarity) ==
    [type |-> type, severity |-> severity, expected |-> expected, actual |-> actual,
     attribute |-> attribute, index |-> index, childDiffs |-> childDiffs,
     similarity |-> similarity]

CountSeverity(diffs, sev) == Len(SelectSeq(diffs, LAMBDA d : d.severity = sev))

TagDiffs(expected, actual) ==
    LET expectedTag == ToLowerTag(expected.tagName)
        actualTag == ToLowerTag(actual.tagName)
    IN IF expectedTag # actualTag
       THEN <<DiffEntry("tagName", "high", expectedTag, actualTag, NULL, NULL, NULL, NULL)>>
       ELSE <<>>

\* TextDiffs with a similarity equal to the strict threshold counted as a diff
TextDiffsAtThreshold(expected, actual) ==
    LET expectedText == normalizeText(textContent(expected))
        actualText == normalizeText(textContent(actual))
        textSimilarity == calculateTextSimilarity(expectedText, actualText)
    IN IF /\ expectedText # <<>> /\ actualText # <<>> /\ expectedText # actualText
          /\ ~RatLT(TEXT_SIM_THRESHOLD_STRICT, textSimilarity)
       THEN <<DiffEntry("textContent",
                        IF RatLT(textSimilarity, TEXT_SIM_THRESHOLD_LENIENT)
                        THEN "high" ELSE "low",
                        expectedText, actualText, NULL, NULL, NULL, textSimilarity)>>
       ELSE <<>>

TextDiffs(expected, actual) ==
    LET expectedText == normalizeText(textContent(expected))
        actualText == normalizeText(textContent(actual))
        textSimilarity == calculateTextSimilarity(expectedText, actualText)
    IN IF /\ expectedText # <<>> /\ actualText # <<>> /\ expectedText # actualText
          /\ RatLT(textSimilarity, TEXT_SIM_THRESHOLD_STRICT)
       THEN <<DiffEntry("textContent",
                        IF RatLT(textSimilarity, TEXT_SIM_THRESHOLD_LENIENT)
                        THEN "high" ELSE "low",
                        expectedText, actualText, NULL, NULL, NULL, textSimilarity)>>
       ELSE <<>>

\* AttrDiffs without the test that the two values differ
RECURSIVE AttrDiffsWhenDefined(_, _, _)
AttrDiffsWhenDefined(expected, actual, i) ==
    IF i > Len(importantAttrs) THEN <<>>
    ELSE LET attr == importantAttrs[i]
             expectedVal == getAttribute(expected, attr)
             actualVal == getAttribute(actual, attr)
         IN (IF Truthy(expectedVal) \/ Truthy(actualVal)
             THEN <<DiffEntry("attribute", IF attr = "id" THEN "high" ELSE "medium",
                              expectedVal, actualVal, attr, NULL, NULL, NULL)>>
             ELSE <<>>)
            \o AttrDiffsWhenDefined(expected, actual, i + 1)

RECURSIVE AttrDiffs(_, _, _)
AttrDiffs(expected, actual, i) ==
    IF i > Len(importantAttrs) THEN <<>>
    ELSE LET attr == importantAttrs[i]
             expectedVal == getAttribute(expected, attr)
             actualVal == getAttribute(actual, attr)
         IN (IF expectedVal # actualVal /\ (Truthy(expectedVal) \/ Truthy(actualVal))
             THEN <<DiffEntry("attribute", IF attr = "id" THEN "high" ELSE "medium",
                              expectedVal, actualVal, attr, NULL, NULL, NULL)>>
             ELSE <<>>)
            \o AttrDiffs(expected, actual, i + 1)

\* ChildrenCountDiffs without the tolerance of one child
ChildrenCountDiffsNoTolerance(expected, actual) ==
    LET ne == Len(getElementChildren(expected))
        na == Len(getElementChildren(actual))
    IN IF ne # na
       THEN <<DiffEntry("childrenCount", "medium", ne, na, NULL, NULL, NULL, NULL)>>
       ELSE <<>>

ChildrenCountDiffs(expected, actual) ==
    LET ne == Len(getElementChildren(expected))
        na == Len(getElementChildren(actual))
    IN IF Abs(ne - na) > STRUCTURE_TOLERANCE_CHILD_DIFF
       THEN <<DiffEntry("childrenCount", "medium", ne, na, NULL, NULL, NULL, NULL)>>
       ELSE <<>>

\* IsEqualVerdict without the test for a high-severity diff
IsEqualVerdictByCount(diffs) == Len(diffs) <= 2

\* the verdict of structuralEqual over the diffs it collected
IsEqualVerdict(diffs) == CountSeverity(diffs, "high") = 0 /\ Len(diffs) <= 2

RECURSIVE structuralEqual(_, _, _)
RECURSIVE ChildDiffs(_, _, _, _)
\* i counts the child pairs from 0, as the loop of structuralEqual does
ChildDiffs(expectedChildren, actualChildren, i, native) ==
    IF i >= Min(Len(expectedChildren), Len(actualChildren)) THEN <<>>
    ELSE LET childRes == structuralEqual(expectedChildren[i + 1], actualChildren[i + 1], native)
         IN (IF ~childRes.equal
             THEN <<DiffEntry("childStructure", "medium", NULL, NULL, NULL, i,
                              childRes.diffs, NULL)>>
             ELSE <<>>)
            \o ChildDiffs(expectedChildren, actualChildren, i + 1, native)

\* native: whether isEqualNode is there and does not throw
structuralEqual(expected, actual, native) ==
    IF ~isElementNode(expected) \/ ~isElementNode(actual)
    THEN [equal |-> TRUE, diffs |-> <<>>]
    ELSE IF native /\ isEqualNode(expected, actual)
    THEN [equal |-> TRUE, diffs |-> <<>>]
    ELSE LET diffs == TagDiffs(expected, actual)
                      \o TextDiffs(expected, actual)
                      \o AttrDiffs(expected, actual, 1)
                      \o ChildrenCountDiffs(expected, actual)
                      \o ChildDiffs(getElementChildren(expected),
                                    getElementChildren(actual), 0, native)
         IN [equal |-> IsEqualVerdict(diffs), diffs |-> diffs]

(***************************************************************************)
(* calculateAssessmentScore                                               *)
(***************************************************************************)
\* StructurePoints without the floor at 0
StructurePointsNoFloor(structuralResult) ==
    IF structuralResult.equal
    THEN STRUCTURE_WEIGHT
    ELSE LET high == CountSeverity(structuralResult.diffs, "high")
             med == CountSeverity(structuralResult.diffs, "medium")
             low == CountSeverity(structuralResult.diffs, "low")
             penalties == (high * 20) + (med * 10) + (low * 5)
         IN STRUCTURE_WEIGHT - penalties

StructurePoints(structuralResult) ==
    IF structuralResult.equal
    THEN STRUCTURE_WEIGHT
    ELSE LET high == CountSeverity(structuralResult.diffs, "high")
             med == CountSeverity(structuralResult.diffs, "medium")
             low == CountSeverity(structuralResult.diffs, "low")
             penalties == (high * 20) + (med * 10) + (low * 5)
         IN Max(0, STRUCTURE_WEIGHT - penalties)

\* BonusApplies with the comparison turned round
BonusAppliesBelow(structuralResult, visualSim) ==
    structuralResult.equal /\ RatLT(visualSim, Rat(9, 10))

BonusApplies(structuralResult, visualSim) ==
    structuralResult.equal /\ RatLT(Rat(9, 10), visualSim)

\* calculateAssessmentScore without clamp01, the cap of the bonus and the final clamp
calculateAssessmentScoreUnclamped(structuralResult, visualSim) ==
    LET s1 == RatAdd(RatInt(StructurePoints(structuralResult)),
                     RatMul(visualSim, RatInt(VISUAL_WEIGHT)))
        s2 == IF BonusApplies(structuralResult, visualSim)
              THEN RatAdd(s1, RatInt(5))
              ELSE s1
    IN MathRound(s2)

calculateAssessmentScore(structuralResult, visualSim) ==
    LET s1 == RatAdd(RatInt(StructurePoints(structuralResult)),
                     RatMul(clamp01(visualSim), RatInt(VISUAL_WEIGHT)))
        s2 == IF BonusApplies(structuralResult, visualSim)
              THEN RatMin(RatInt(100), RatAdd(s1, RatInt(5)))
              ELSE s1
    IN MathRound(clamp(s2, 0, 100))

(***************************************************************************)
(* visualSimilarity.  The computed style of an element is what the        *)
(* browser resolves from its tag and its inline style: keywords, lengths  *)
(* (a number and a unit) and colours (rgb or rgba).                       *)
(***************************************************************************)
Kw(word) == [kind |-> "kw", word |-> word, v |-> 0, unit |-> "", r |-> 0, g |-> 0, b |-> 0, a |-> 0]
Size(v, unit) == [kind |-> "size", word |-> "", v |-> v, unit |-> unit, r |-> 0, g |-> 0, b |-> 0, a |-> 0]
Rgba(r, g, b, a) == [kind |-> "rgb", word |-> "", v |-> 0, unit |-> "", r |-> r, g |-> g, b |-> b, a |-> a]

layoutProps == <<"display", "position", "width", "height", "margin", "padding">>
visualProps == <<"color", "backgroundColor", "fontSize", "fontWeight", "textAlign", "borderRadius">>
\* the property names CSSStyleDeclaration.getPropertyValue knows among those asked
CssPropertyNames == {"display", "position", "width", "height", "margin", "padding", "color"}

BlockTags == {"DIV", "H3", "PRE", "P"}
getComputedStyle(el) ==
    LET inline == el.attrs["style"]
    IN [display  |-> Kw(IF el.tagName \in BlockTags THEN "block" ELSE "inline"),
        position |-> Kw("static"),
        width    |-> IF el.tagName \in BlockTags
                     THEN Size(IF inline = "narrow" THEN 90 ELSE IF inline = "half" THEN 50 ELSE 100, "px")
                     ELSE Kw("auto"),
        height   |-> IF el.tagName \in BlockTags THEN Size(20, "px") ELSE Kw("auto"),
        margin   |-> Size(0, "px"),
        padding  |-> Size(IF inline = "padded" THEN 20 ELSE 0, "px"),
        color    |-> IF inline = "red" THEN Rgba(255, 0, 0, 1) ELSE Rgba(0, 0, 0, 1)]
\* a name it does not know gives the empty string
getPropertyValue(style, prop) == IF prop \in CssPropertyNames THEN style[prop] ELSE Kw("")

IsColorProp(prop) == prop \in {"color", "backgroundColor"}
normalizeColor(c) == IF c.kind = "rgb" THEN Rgba(c.r, c.g, c.b, 1) ELSE c
normalizeSizeValue(v) ==
    IF v.kind = "size" /\ v.unit \in {"em", "rem"} THEN Size(v.v * 16, "px") ELSE v

isStyleValueEqual(v1, v2, prop) ==
    IF v1 = v2 THEN TRUE
    ELSE IF IsColorProp(prop) THEN normalizeColor(v1) = normalizeColor(v2)
    ELSE IF prop \in {"width", "height", "fontSize", "margin", "padding"}
         THEN normalizeSizeValue(v1) = normalizeSizeValue(v2)
    ELSE FALSE

isColorSimilar(c1, c2) ==
    LET n1 == normalizeColor(c1)
        n2 == normalizeColor(c2)
    IN IF n1 = Kw("") \/ n2 = Kw("") THEN FALSE
       ELSE IF n1 = Kw("transparent") /\ n2 = Kw("transparent") THEN TRUE
       ELSE n1 = n2

\* within 20%: |v1 - v2| / ((v1 + v2) / 2 || 1) < 0.2
isSizeSimilar(s1, s2) ==
    IF s1.kind # "size" \/ s2.kind # "size" THEN FALSE
    ELSE LET diff == Abs(s1.v - s2.v)
             sum == s1.v + s2.v
         IN IF sum = 0 THEN RatLT(RatInt(diff), Rat(2, 10))
            ELSE RatLT(Rat(2 * diff, sum), Rat(2, 10))

isStyleValueSimilar(v1, v2, prop) ==
    IF IsColorProp(prop) THEN isColorSimilar(v1, v2)
    ELSE IF prop \in {"fontSize", "width", "height"} THEN isSizeSimilar(v1, v2)
    ELSE FALSE

\* the points, in tenths, of a list of style properties, each worth weight
PropPoints(props, es, as, weight) ==
    LET P[i \in 0..Len(props)] ==
            IF i = 0 THEN 0
            ELSE LET eVal == getPropertyValue(es, props[i])
                     aVal == getPropertyValue(as, props[i])
                 IN P[i - 1] + (IF isStyleValueEqual(eVal, aVal, props[i]) THEN 10 * weight
                                ELSE IF isStyleValueSimilar(eVal, aVal, props[i]) THEN 5 * weight
                                ELSE 0)
    IN P[Len(props)]

RECURSIVE Descendants(_)
\* the element descendants of a node, in document order
Descendants(node) ==
    LET kids == getElementChildren(node)
        D[i \in 0..Len(kids)] ==
            IF i = 0 THEN <<>> ELSE D[i - 1] \o <<kids[i]>> \o Descendants(kids[i])
    IN D[Len(kids)]
\* querySelectorAll('button, input, a')
Interactive(node) ==
    SelectSeq(Descendants(node), LAMBDA n : n.tagName \in {"BUTTON", "INPUT", "A"})

\* InteractiveChecks without the check counted for each pair of elements
InteractiveChecksNoPairs(ei, ai) ==
    IF Len(ei) = 0 /\ Len(ai) = 0 THEN 0 ELSE 1
\* the checks and the points (a rational) of the interactive elements
InteractiveChecks(ei, ai) ==
    IF Len(ei) = 0 /\ Len(ai) = 0 THEN 0
    ELSE IF Len(ei) = Len(ai) THEN 1 + Len(ei) ELSE 1
InteractivePoints(ei, ai) ==
    IF Len(ei) # Len(ai) \/ Len(ei) = 0 THEN 0
    ELSE LET P[i \in 0..Len(ei)] ==
                 IF i = 0 THEN 10
                 ELSE LET eBtnText == normalizeText(textContent(ei[i]))
                          aBtnText == normalizeText(textContent(ai[i]))
                      IN P[i - 1] + (IF eBtnText = aBtnText THEN 10
                                     ELSE IF RatLT(Rat(7, 10), calculateTextSimilarity(eBtnText, aBtnText))
                                          THEN 8 ELSE 0)
         IN P[Len(ei)]

\* styleOk: whether reading the computed styles succeeds; [score, totalChecks]
VisualTally(expected, actual) ==
    LET es == getComputedStyle(expected)
        as == getComputedStyle(actual)
        expectedText == normalizeText(textContent(expected))
        actualText == normalizeText(textContent(actual))
        textPoints == IF expectedText = actualText THEN RatInt(1)
                      ELSE clamp01(calculateTextSimilarity(expectedText, actualText))
        tagPoints == IF expected.tagName = actual.tagName THEN 10 ELSE 0
        eChildren == Len(getElementChildren(expected))
        aChildren == Len(getElementChildren(actual))
        childPoints == IF eChildren = aChildren THEN 10
                       ELSE IF Abs(eChildren - aChildren) <= STRUCTURE_TOLERANCE_CHILD_DIFF
                            THEN 7 ELSE 0
        ei == Interactive(expected)
        ai == Interactive(actual)
        tenths == PropPoints(layoutProps, es, as, 2) + PropPoints(visualProps, es, as, 1)
                  + tagPoints + childPoints + InteractivePoints(ei, ai)
    IN [score |-> RatAdd(Rat(tenths, 10), textPoints),
        totalChecks |-> 2 * Len(layoutProps) + Len(visualProps) + 3 + InteractiveChecks(ei, ai)]

visualSimilarity(expected, actual, styleOk) ==
    IF ~isElementNode(expected) \/ ~isElementNode(actual) THEN RatInt(1)
    ELSE IF ~styleOk THEN Rat(8, 10)
    ELSE LET t == VisualTally(expected, actual)
         IN IF t.totalChecks > 0 THEN clamp01(RatDiv(t.score, t.totalChecks)) ELSE RatInt(0)

(***************************************************************************)
(* Inputs of the pure functions: bounded sets of visual ratios, of         *)
(* comparison results and of rendered trees.                               *)
(***************************************************************************)
\* visual ratios are VisualNums / VisualDen: below 0, within [0,1], above 1
VisualDen == 20
VisualOver == 2
VisualRatios == {Rat(k, VisualDen) : k \in (0 - VisualOver)..(VisualDen + VisualOver)}

MaxDiffs == 4
Severities == {"low", "medium", "high"}
SeverityLists == UNION {[1..k -> Severities] : k \in 0..MaxDiffs}
\* a medium diff is a childStructure diff that carries a high diff of the child
DiffOfSeverity(sev) ==
    IF sev = "medium"
    THEN DiffEntry("childStructure", "medium", NULL, NULL, NULL, 0,
                   <<DiffEntry("tagName", "high", "div", "span", NULL, NULL, NULL, NULL)>>, NULL)
    ELSE DiffEntry("attribute", sev, NULL, NULL, "class", NULL, NULL, NULL)
ComparisonResults ==
    {[equal |-> e, diffs |-> [i \in 1..Len(l) |-> DiffOfSeverity(l[i])]] :
        e \in BOOLEAN, l \in SeverityLists}

TextPool ==
    { <<>>,
      <<"a", "b">>, <<" ", "A", "b", "\n">>, <<"a", "c">>, <<"c", "d">>,
      <<"n", "5">>, <<"n", "9">>, <<"N", "1", "2">>, <<"m", "5">> }
AttrPool ==
    { NoAttrs,
      [NoAttrs EXCEPT !["id"] = "x"],
      [NoAttrs EXCEPT !["id"] = ""],
      [NoAttrs EXCEPT !["class"] = "c"],
      [NoAttrs EXCEPT !["class"] = "c", !["type"] = "t", !["href"] = "h"],
      [NoAttrs EXCEPT !["title"] = "z"] }
TextKids(t) == IF t = <<>> THEN <<>> ELSE <<Txt(t)>>
Leaves == {El(tag, a, TextKids(t)) : tag \in {"DIV", "SPAN"}, a \in AttrPool, t \in TextPool}

MaxKids == 2
KidPool ==
    { El("DIV", NoAttrs, <<Txt(<<"a", "b">>)>>),
      El("SPAN", NoAttrs, <<Txt(<<"a", "b">>)>>),
      El("DIV", [NoAttrs EXCEPT !["id"] = "x"], <<Txt(<<"c", "d">>)>>) }
KidLists == UNION {[1..k -> KidPool] : k \in 0..MaxKids}
Parents ==
    {El("DIV", NoAttrs, lead \o kids) : lead \in {<<>>, <<Txt(<<"a", "b">>)>>}, kids \in KidLists}
GrandParents ==
    {El("DIV", NoAttrs, <<El("DIV", NoAttrs, <<k>>)>>) : k \in KidPool}
\* texts whose similarities fall on and between the two thresholds:
\* abcd/abcde is 4/5, abc/abcd is 3/4, abc/abcde is 3/5
LongTexts == { <<"a", "b", "c">>, <<"a", "b", "c", "d">>, <<"a", "b", "c", "d", "e">> }
TextLeaves == {El("DIV", NoAttrs, TextKids(t)) : t \in LongTexts}
Trees == Leaves \cup TextLeaves \cup Parents \cup GrandParents
Nodes == Trees \cup {NoNode, Txt(<<"a", "b">>)}

(***************************************************************************)
(* components/CodeRunner.tsx: source texts, questions and what a program   *)
(* renders.  A source text is one of a few kinds: the empty text, a text   *)
(* of white space only, a component (CompA, CompB), a text the transpiler  *)
(* rejects, and a module that throws when it is evaluated.                 *)
(***************************************************************************)
Codes == {"", "WS", "CompA", "CompB", "SYNTAX", "THROWS"}
\* (code || '').trim().length
TrimLength(code) == IF code \in {"", "WS"} THEN 0 ELSE 1

\* file names in the order Object.entries lists them
FileOrder == <<"App.jsx", "App.js", "Util.jsx">>
FileNames == {FileOrder[i] : i \in 1..Len(FileOrder)}
\* files[name] || ''
FileOr(files, name) == IF name \in DOMAIN files THEN files[name] ELSE ""
StartsWithApp(name) == name \in {"App.jsx", "App.js"}
KeysOf(files) == SelectSeq(FileOrder, LAMBDA f : f \in DOMAIN files)
SingleFile(code) == [f \in {"App.jsx"} |-> code]

\* the questions of the assessment: starterCode, solutionCode, multiple
NumQuestions == 2
NumUsers == 2
\* the id of the assessment the page runs
AssessmentId == "a1"
Uids == 1..NumUsers
QuestionIds == 1..NumQuestions
QuestionBank(q) ==
    IF q % 3 = 1
    THEN [starterCode |-> "CompB", starterIsObject |-> FALSE,
          solutionCode |-> "CompA", solutionIsObject |-> FALSE, multiple |-> FALSE]
    ELSE IF q % 3 = 2
    THEN [starterCode |-> [f \in {"App.jsx"} |-> ""],
          starterIsObject |-> TRUE,
          solutionCode |-> [f \in {"App.jsx"} |-> "CompA"],
          solutionIsObject |-> TRUE, multiple |-> TRUE]
    ELSE [starterCode |-> [f \in {"App.js", "Util.jsx"} |-> IF f = "App.js" THEN "CompB" ELSE "WS"],
          starterIsObject |-> TRUE,
          solutionCode |-> [f \in {"App.js"} |-> "CompA"],
          solutionIsObject |-> TRUE, multiple |-> TRUE]
\* the questions that show the file list: the next one past the bank's bound
\* is the one whose entry file is App.js
FileQuestionIds == {q \in 1..(NumQuestions + 1) : QuestionBank(q).multiple}

\* the initial user files: starterCode when multiple and an object, else one App.jsx
StarterFiles(q) ==
    LET Q == QuestionBank(q)
    IN IF Q.multiple /\ Q.starterIsObject THEN Q.starterCode
       ELSE SingleFile(IF Q.starterIsObject THEN "" ELSE Q.starterCode)
SolutionFiles(q) ==
    LET Q == QuestionBank(q)
    IN IF Q.multiple /\ Q.solutionIsObject THEN Q.solutionCode
       ELSE SingleFile(IF Q.solutionIsObject THEN "" ELSE Q.solutionCode)
\* Object.keys(starterCode)[0] || 'App.jsx'
StarterActiveFile(q) ==
    LET Q == QuestionBank(q)
    IN IF Q.multiple /\ Q.starterIsObject
       THEN (IF KeysOf(Q.starterCode) = <<>> THEN "App.jsx" ELSE KeysOf(Q.starterCode)[1])
       ELSE "App.jsx"

\* bundleFiles: the other files in order, then the App file
bundleFiles(files) ==
    LET appFile == IF FileOr(files, "App.jsx") # "" THEN FileOr(files, "App.jsx")
                   ELSE FileOr(files, "App.js")
        otherFiles == SelectSeq(KeysOf(files), LAMBDA f : ~StartsWithApp(f))
    IN [i \in 1..Len(otherFiles) |-> files[otherFiles[i]]] \o <<appFile>>
\* the program of executeAndRenderCode: its parts, the entry last
ProgramSource(files, multiple) ==
    IF multiple THEN bundleFiles(files) ELSE <<FileOr(files, "App.jsx")>>

HasPart(program, kind) == \E i \in 1..Len(program) : program[i] = kind
\* TranspileFails for a transpiler that accepts every text
TranspileNeverFails(program) == FALSE
\* transpileJSX throws on a text Babel rejects
TranspileFails(program) == HasPart(program, "SYNTAX")

\* the parameters of the function new Function builds around the bundle
FunctionParameters == {"React", "useState", "useEffect", "useCallback", "useMemo", "useRef", "console"}
\* bindings of the host page
GlobalNames == {"window", "fetch", "localStorage", "setTimeout"}
\* a function built by new Function closes over the global scope only: a free
\* name of its body is one of its parameters or a global of the page
Scope == FunctionParameters \cup GlobalNames
\* a text that holds "export default": the components and the new-file template
ExportsDefault(code) == code \in {"CompA", "CompB", "NEW"}
\* the free names of the bundle: React, and window where bundleFiles has put
\* "window.<ModuleName> = " for the export default of a file other than App
FreeNames(program) ==
    {"React"} \cup (IF \E i \in 1..(Len(program) - 1) : ExportsDefault(program[i])
                    THEN {"window"} ELSE {})
\* evaluating the bundle throws inside the constructed function: the text
\* throws, or a free name is not in scope (ReferenceError)
EvaluationThrows(program) ==
    \/ HasPart(program, "THROWS")
    \/ ~(FreeNames(program) \subseteq Scope)

(* The rendered artifacts *)
tAb == <<"a", "b">>
tCd == <<"c", "d">>
TreeCompA == El("DIV", NoAttrs, <<El("BUTTON", NoAttrs, <<Txt(tAb)>>)>>)
TreeCompB == El("DIV", [NoAttrs EXCEPT !["style"] = "narrow"], <<El("SPAN", NoAttrs, <<Txt(tAb)>>)>>)
TreeNotFound == El("DIV", [NoAttrs EXCEPT !["style"] = "padded"], <<Txt(<<"n", "o", "n", "e">>)>>)
TreeRuntimeError ==
    El("DIV", [NoAttrs EXCEPT !["style"] = "red"],
       <<El("H3", NoAttrs, <<Txt(<<"R", "E">>)>>), El("PRE", NoAttrs, <<Txt(<<"e", "r", "r">>)>>)>>)
TreeCompileError ==
    El("DIV", [NoAttrs EXCEPT !["style"] = "padded"],
       <<El("H3", NoAttrs, <<Txt(<<"C", "E">>)>>), El("PRE", NoAttrs, <<Txt(<<"m", "s", "g">>)>>)>>)
TreeNoCode ==
    El("DIV", [NoAttrs EXCEPT !["style"] = "padded"],
       <<El("H3", NoAttrs, <<Txt(<<"n", "o">>)>>), El("P", NoAttrs, <<Txt(<<"r", "u", "n">>)>>)>>)

\* ComponentTree without the catch around the evaluation
ComponentTreeNoCatch(program) ==
    LET entry == program[Len(program)]
    IN IF entry = "CompA" THEN TreeCompA
       ELSE IF entry = "CompB" THEN TreeCompB
       ELSE TreeNotFound

\* what the component made from a program renders
ComponentTree(program) ==
    IF EvaluationThrows(program) THEN TreeRuntimeError
    ELSE LET entry == program[Len(program)]
         IN IF entry = "CompA" THEN TreeCompA
            ELSE IF entry = "CompB" THEN TreeCompB
            ELSE TreeNotFound
\* EvaluationLog with the entries as the program gave them, without a tag
EvaluationLogUntagged(program) ==
    IF EvaluationThrows(program) THEN <<"Execution error">>
    ELSE IF HasPart(program, "CompB") THEN <<"mounted", "deprecated">>
    ELSE <<>>
\* what the intercepted console receives while the program is evaluated: the
\* error of a throw through console.error; CompB calls console.log and console.warn
EvaluationLog(program) ==
    IF EvaluationThrows(program) THEN <<"ERROR: Execution error">>
    ELSE IF HasPart(program, "CompB") THEN <<"LOG: mounted", "WARN: deprecated">>
    ELSE <<>>
CompilationErrorMsg == "Compilation Error: JSX transpilation failed"

(***************************************************************************)
(* State                                                                  *)
(***************************************************************************)
VARIABLES
    questionId,          \* the questionId prop: the question shown
    userFiles,           \* useState: the user's files
    solutionFiles,       \* useState: the reference files
    activeFile,          \* useState: the file in the editor
    lastQuestionId,      \* useState: the question the state was loaded for
    isRunning,           \* useState
    consoleOutput,       \* useState: the console log
    compilationError,    \* useState: '' or the message
    assessmentScore,     \* useState
    showPreview,         \* useState: the user preview is shown
    showSolutionPreview, \* useState: the reference preview is shown
    container,           \* userPreviewRef / solutionPreviewRef: the div now in the page, 0 for null
    rootRef,             \* userRootRef / solutionRootRef: the root handle, 0 for null
    elementRef,          \* previewElementRef / solutionElementRef: a div, 0 for null
    roots,               \* the React roots created and not unmounted
    timers,              \* the pending setTimeout callbacks, in creation order
    testing,             \* AssessmentRunner useState
    submitting,          \* AssessmentRunner useState
    completed,           \* AssessmentRunner useState completedQuestions: the questions submitted
    hostTimers,          \* the pending setTimeout callbacks of AssessmentRunner, in creation order
    lastEvent,           \* history: what the last step did
    fn,       \* the function under application: "none", or its name once applied
    fnArgs,   \* its arguments
    fnOut,    \* its result
    page,     \* AssessmentRunner: the question index, the scores, the final submissions
    auth      \* AuthContext and the services behind it: accounts, user documents, session

fnVars == <<fn, fnArgs, fnOut>>
runnerVars ==
    <<questionId, userFiles, solutionFiles, activeFile, lastQuestionId, isRunning,
      consoleOutput, compilationError, assessmentScore, showPreview, showSolutionPreview,
      container, rootRef, elementRef, roots, timers, testing, submitting, completed,
      hostTimers, lastEvent>>
appVars == <<page, auth>>
\* what a step of the runner leaves alone
restVars == <<fnVars, appVars>>
vars == <<runnerVars, fnVars, appVars>>

Sides == {"user", "solution"}

(***************************************************************************)
(* The two preview containers and their roots                              *)
(***************************************************************************)
FreshId(used) == CHOOSE n \in 1..(Cardinality(used) + 1) : n \notin used
Dom == [roots |-> roots, rootRef |-> rootRef, elementRef |-> elementRef]

\* root.unmount() on the handle of a side, when there is one
UnmountRef(d, side) ==
    [d EXCEPT !.roots = {r \in d.roots : ~(r.side = side /\ r.id = d.rootRef[side])}]
\* createRoot(div) and render(content), the handle taking the new root
CreateRoot(d, side, div, content) ==
    LET id == FreshId({r.id : r \in {x \in d.roots : x.side = side}})
    IN [d EXCEPT !.roots = @ \cup {[id |-> id, side |-> side, div |-> div, content |-> content]},
                 !.rootRef[side] = id]
\* ReplaceRoot without the unmount of the root the handle holds
ReplaceRootNoUnmount(d, side, div, content) ==
    IF div = 0 THEN d ELSE CreateRoot(d, side, div, content)
\* if (ref.current) { if (rootRef.current) rootRef.current.unmount(); rootRef.current = createRoot(...) ... }
ReplaceRoot(d, side, div, content) ==
    IF div = 0 THEN d
    ELSE CreateRoot(IF d.rootRef[side] # 0 THEN UnmountRef(d, side) ELSE d, side, div, content)
\* ClearRoot dropping the handle without the unmount
ClearRootKeepsRoot(d, side) == [d EXCEPT !.rootRef[side] = 0]
\* if (rootRef.current) { rootRef.current.unmount(); rootRef.current = null; }
ClearRoot(d, side) ==
    IF d.rootRef[side] # 0 THEN [UnmountRef(d, side) EXCEPT !.rootRef[side] = 0] ELSE d

\* elementRef.current?.firstElementChild: what a live root rendered into that div
FirstElementChild(d, side) ==
    LET here == {r \in d.roots : r.side = side /\ r.div = d.elementRef[side]}
    IN IF d.elementRef[side] = 0 \/ here = {} THEN NoNode
       ELSE (CHOOSE r \in here : TRUE).content

\* executeAndRenderCode mounting nothing for the reference files
executeAndRenderCodeUserOnly(d, files, side, multiple, div) ==
    LET program == ProgramSource(files, multiple)
        here == IF side = "user" THEN div ELSE 0
    IN IF TranspileFails(program)
       THEN [dom |-> ReplaceRoot(d, side, here, TreeCompileError),
             ok |-> FALSE,
             log |-> <<"ERROR: " \o CompilationErrorMsg>>,
             error |-> IF side = "user" THEN CompilationErrorMsg ELSE "",
             mounted |-> here # 0]
       ELSE [dom |-> IF here = 0 THEN d
                     ELSE [ReplaceRoot(d, side, here, ComponentTree(program))
                              EXCEPT !.elementRef[side] = here],
             ok |-> TRUE,
             log |-> EvaluationLog(program),
             error |-> "",
             mounted |-> here # 0]

\* executeAndRenderCode(files, targetRef, targetRootRef, isUserCode): the new
\* DOM, the return value, the console entries appended and the compile error
executeAndRenderCode(d, files, side, multiple, div) ==
    LET program == ProgramSource(files, multiple)
    IN IF TranspileFails(program)
       THEN [dom |-> ReplaceRoot(d, side, div, TreeCompileError),
             ok |-> FALSE,
             log |-> <<"ERROR: " \o CompilationErrorMsg>>,
             error |-> IF side = "user" THEN CompilationErrorMsg ELSE "",
             mounted |-> div # 0]
       ELSE [dom |-> IF div = 0 THEN d
                     ELSE [ReplaceRoot(d, side, div, ComponentTree(program))
                              EXCEPT !.elementRef[side] = div],
             ok |-> TRUE,
             log |-> EvaluationLog(program),
             error |-> "",
             mounted |-> div # 0]

\* compareOutputs without the test that both sides have a root element
compareOutputsNoGuard(d) ==
    calculateAssessmentScore(structuralEqual(FirstElementChild(d, "solution"), FirstElementChild(d, "user"), TRUE),
                             visualSimilarity(FirstElementChild(d, "solution"), FirstElementChild(d, "user"), TRUE))
\* compareOutputs: the score it stores.  A render is taken as settled when the
\* next timer runs, and computed styles as resolved also in a div that left the page.
compareOutputs(d) ==
    LET userRoot == FirstElementChild(d, "user")
        solutionRoot == FirstElementChild(d, "solution")
    IN IF ~isElementNode(userRoot) \/ ~isElementNode(solutionRoot) THEN 0
       ELSE calculateAssessmentScore(structuralEqual(solutionRoot, userRoot, TRUE),
                                     visualSimilarity(solutionRoot, userRoot, TRUE))

(***************************************************************************)
(* Timers: the time left of each is in milliseconds                        *)
(***************************************************************************)
UserRenderDelayMs == 200
CompareDelayMs == 100
ResetRenderDelayMs == 0
TestWaitMs == 1100
SubmitWaitMs == 1000
AdvanceDelayMs == 1200
TickMs == 100
MaxTimers == 2

\* a setTimeout callback of CodeRunner with what its closure holds; stale and
\* steps are history: a reset or a question change came after its run started,
\* and the number of render steps its run has taken
Timer(kind, left, files, multiple, steps) ==
    [kind |-> kind, left |-> left, files |-> files, multiple |-> multiple,
     stale |-> FALSE, steps |-> steps]
\* a timer of AssessmentRunner and the question it was set for
HostTimer(kind, left, q) == [kind |-> kind, left |-> left, q |-> q]
IsRunTimer(t) == t.kind \in {"runUser", "compare"}
\* a reset or a question change: the pending steps of the runs before it are marked
MarkStale(ts) == [i \in 1..Len(ts) |-> IF IsRunTimer(ts[i]) THEN [ts[i] EXCEPT !.stale = TRUE] ELSE ts[i]]
RemoveAt(ts, i) == [j \in 1..(Len(ts) - 1) |-> IF j < i THEN ts[j] ELSE ts[j + 1]]
\* the timer the event loop runs next: the first created among those due
Due(ts, i) == /\ i \in 1..Len(ts)
              /\ ts[i].left = 0
              /\ \A j \in 1..(i - 1) : ts[j].left # 0
TimeLeft == {timers[i].left : i \in 1..Len(timers)} \cup {hostTimers[i].left : i \in 1..Len(hostTimers)}

\* what a step did: the run step taken, whether it mounted on its side and
\* whether that took the place of a root, whether it stored a score, and for
\* runCode whether the user files were blank, whether a user step was scheduled
\* and whether an earlier run was still pending; for a user step the program it
\* was given; for a reset or a question change, replaced tells that both sides
\* held a root when it came
Event(op) ==
    [op |-> op, stale |-> FALSE, steps |-> 0, emptyUser |-> FALSE, mounted |-> FALSE,
     replaced |-> FALSE, scheduled |-> FALSE, scored |-> FALSE, overlapped |-> FALSE,
     program |-> <<>>]
Idle == Event("idle")

(***************************************************************************)
(* CodeRunner and the callers of its handle                                *)
(***************************************************************************)
Multiple == QuestionBank(questionId).multiple
PendingRun == \E i \in 1..Len(timers) : IsRunTimer(timers[i])
\* hasUserContent without the trim
hasUserContentUntrimmed(files) == \E f \in DOMAIN files : files[f] # ""
hasUserContent(files) == \E f \in DOMAIN files : TrimLength(files[f]) > 0

\* AssessmentRunner once the questions are loaded: the first question is
\* shown, every score is 0, nothing was submitted
PageLoaded ==
    [currentQuestionIndex |-> 0,
     questionScores |-> [i \in 1..NumQuestions |-> 0],
     finalCalls |-> 0,
     submissions |-> <<>>,
     crashed |-> FALSE]

\* a user document of Firestore, and the profile held in React state;
\* assessmentCompleted is the array register and login write,
\* assessmentsCompleted the map submitFinalAssessment adds to (its keys)
Profile(uid, role, name, done) ==
    [uid |-> uid, role |-> role, name |-> name, assessmentCompleted |-> <<>>,
     assessmentsCompleted |-> done, totalScore |-> 0]
\* no document, and null for the profile in React state
NoProfile == Profile(0, "none", "", {})
AuthStep(op, uid, before) == [op |-> op, uid |-> uid, before |-> before]
\* the provider as constructed: nobody is signed in, no account and no user
\* document exists.  users is the collection, accounts and session belong
\* to Firebase Auth, pending holds the asynchronous steps under way, last is
\* history: the last step and the document it replaced
AuthIdle ==
    [accounts |-> {},
     users |-> [u \in Uids |-> NoProfile],
     session |-> 0,
     currentUser |-> 0,
     userProfile |-> NoProfile,
     loading |-> TRUE,
     pending |-> <<>>,
     last |-> AuthStep("init", 0, NoProfile)]

\* the profile update of submitFinalAssessment for the assessment id:
\* updateDoc adds assessmentsCompleted.<id> to the document of
\* userProfile.uid; without a profile or a document nothing is written
ProfileUpdated(a, id) ==
    LET u == a.userProfile.uid
    IN IF u # 0 /\ a.users[u] # NoProfile
       THEN [a EXCEPT !.users[u].assessmentsCompleted = @ \cup {id}]
       ELSE a

\* the CodeRunner as constructed for question q, its first effect run
RunnerAt(q) ==
    /\ questionId = q
    /\ userFiles = StarterFiles(q)
    /\ solutionFiles = SolutionFiles(q)
    /\ activeFile = StarterActiveFile(q)
    /\ lastQuestionId = q
    /\ isRunning = FALSE
    /\ consoleOutput = <<>>
    /\ compilationError = ""
    /\ assessmentScore = 0
    /\ showPreview = TRUE
    /\ showSolutionPreview = TRUE
    /\ container = [s \in Sides |-> 1]
    /\ rootRef = [s \in Sides |-> 0]
    /\ elementRef = [s \in Sides |-> 0]
    /\ roots = {}
    /\ timers = <<>>
    /\ testing = FALSE
    /\ submitting = FALSE
    /\ completed = {}
    /\ hostTimers = <<>>
    /\ lastEvent = Event("init")
    /\ page = PageLoaded
    /\ auth = AuthIdle
RunnerIdle == RunnerAt(1)

FnIdle ==
    /\ fn = "none"
    /\ fnArgs = <<>>
    /\ fnOut = <<>>

\* the CodeRunner mounted for the first question, its first effect run
Init == RunnerIdle /\ FnIdle

\* Divs are named by what they are: 1 is the div in the page, 2 a div that left
\* the page and still holds a live root, 3 a div that left the page and holds none.
DivName(d, cont, side, x) ==
    IF x = 0 THEN 0
    ELSE IF x = cont[side] THEN 1
    ELSE IF \E r \in d.roots : r.side = side /\ r.div = x THEN 2
    ELSE 3
Renamed(d, cont) ==
    [roots |-> {[r EXCEPT !.div = DivName(d, cont, r.side, r.div)] : r \in d.roots},
     rootRef |-> d.rootRef,
     elementRef |-> [s \in Sides |-> DivName(d, cont, s, d.elementRef[s])]]

SetDom(d) ==
    /\ roots' = Renamed(d, container).roots
    /\ rootRef' = d.rootRef
    /\ elementRef' = Renamed(d, container).elementRef

\* runCode()
runCode ==
    LET sol == executeAndRenderCode(Dom, solutionFiles, "solution", Multiple, container["solution"])
        has == hasUserContent(userFiles)
        d == IF has THEN sol.dom
             ELSE ReplaceRoot(sol.dom, "user", container["user"], TreeNoCode)
        step == Timer("runUser", UserRenderDelayMs, userFiles, Multiple, 1)
    IN /\ Len(timers) + 1 <= MaxTimers
       /\ isRunning' = has
       /\ consoleOutput' = sol.log
       /\ assessmentScore' = 0
       /\ SetDom(d)
       /\ timers' = timers \o (IF has THEN <<step>> ELSE <<>>)
       /\ lastEvent' = [Event("runCode") EXCEPT !.steps = 1,
                                                !.emptyUser = ~has,
                                                !.mounted = sol.mounted,
                                                !.replaced = sol.mounted /\ rootRef["solution"] # 0,
                                                !.scheduled = has,
                                                !.overlapped = PendingRun]
       /\ UNCHANGED <<questionId, userFiles, solutionFiles, activeFile, lastQuestionId,
                      compilationError, showPreview, showSolutionPreview, container, completed>>

\* the Run Code button, disabled while isRunning
RunButton ==
    /\ ~isRunning
    /\ runCode
    /\ UNCHANGED <<testing, submitting, hostTimers>>

\* getCurrentCode() is not blank, as AssessmentRunner tests it
CurrentCodeGiven ==
    IF Multiple THEN DOMAIN userFiles # {} ELSE TrimLength(FileOr(userFiles, "App.jsx")) > 0

\* AssessmentRunner.handleRunAndTest, its button disabled while testing
HandleRunAndTest ==
    /\ ~testing
    /\ CurrentCodeGiven
    /\ testing' = TRUE
    /\ runCode
    /\ hostTimers' = Append(hostTimers, HostTimer("testDone", TestWaitMs, questionId))
    /\ UNCHANGED submitting

\* AssessmentRunner.handleSubmitCurrentQuestion, confirmed by the user; its
\* button is disabled while submitting and once the question is completed
HandleSubmit ==
    /\ ~submitting
    /\ questionId \notin completed
    /\ CurrentCodeGiven
    /\ submitting' = TRUE
    /\ runCode
    /\ hostTimers' = Append(hostTimers, HostTimer("submitDone", SubmitWaitMs, questionId))
    /\ UNCHANGED testing

\* the first deferred step of a run: render the user's code
TimerRunUser(i) ==
    /\ Due(timers, i)
    /\ timers[i].kind = "runUser"
    /\ LET t == timers[i]
           res == executeAndRenderCode(Dom, t.files, "user", t.multiple, container["user"])
           next == [Timer("compare", CompareDelayMs, t.files, t.multiple, t.steps + 1)
                       EXCEPT !.stale = t.stale]
       IN /\ SetDom(res.dom)
          /\ consoleOutput' = consoleOutput \o res.log
          /\ compilationError' = IF res.ok THEN compilationError ELSE res.error
          /\ isRunning' = IF res.ok THEN isRunning ELSE FALSE
          /\ timers' = RemoveAt(timers, i) \o (IF res.ok THEN <<next>> ELSE <<>>)
          /\ lastEvent' = [Event("userStep") EXCEPT !.stale = t.stale,
                                                     !.steps = t.steps + 1,
                                                     !.mounted = res.mounted,
                                                     !.replaced = res.mounted /\ rootRef["user"] # 0,
                                                     !.scheduled = res.ok,
                                                     !.program = ProgramSource(t.files, t.multiple)]
    /\ UNCHANGED <<questionId, userFiles, solutionFiles, activeFile, lastQuestionId,
                   assessmentScore, showPreview, showSolutionPreview, container,
                   testing, submitting, completed, hostTimers>>

\* the second deferred step of a run: compareOutputs(); setIsRunning(false)
TimerCompareStep(i) ==
    /\ Due(timers, i)
    /\ timers[i].kind = "compare"
    /\ isRunning' = FALSE
    /\ timers' = RemoveAt(timers, i)
    /\ lastEvent' = [Event("compare") EXCEPT !.stale = timers[i].stale,
                                              !.steps = timers[i].steps,
                                              !.scored = TRUE]
    /\ UNCHANGED <<questionId, userFiles, solutionFiles, activeFile, lastQuestionId,
                   consoleOutput, compilationError, showPreview, showSolutionPreview,
                   container, rootRef, elementRef, roots, testing, submitting, completed,
                   hostTimers>>
TimerCompare(i) ==
    /\ TimerCompareStep(i)
    /\ assessmentScore' = compareOutputs(Dom)

\* resetCode()
ResetCode ==
    /\ Len(timers) + 1 <= MaxTimers
    /\ SetDom(ClearRoot(ClearRoot(Dom, "user"), "solution"))
    /\ userFiles' = StarterFiles(questionId)
    /\ activeFile' = StarterActiveFile(questionId)
    /\ consoleOutput' = <<>>
    /\ compilationError' = ""
    /\ assessmentScore' = 0
    /\ timers' = Append(MarkStale(timers),
                        Timer("resetRender", ResetRenderDelayMs, solutionFiles, Multiple, 0))
    /\ lastEvent' = [Event("resetCode") EXCEPT !.replaced = \A side \in Sides : rootRef[side] # 0]
    /\ UNCHANGED <<questionId, solutionFiles, lastQuestionId, isRunning, showPreview,
                   showSolutionPreview, container, testing, submitting, completed, hostTimers>>

\* the deferred step of resetCode: render the reference again
TimerResetRender(i) ==
    /\ Due(timers, i)
    /\ timers[i].kind = "resetRender"
    /\ LET t == timers[i]
           res == executeAndRenderCode(Dom, t.files, "solution", t.multiple, container["solution"])
       IN /\ SetDom(res.dom)
          /\ consoleOutput' = consoleOutput \o res.log
          /\ lastEvent' = [Event("resetRender") EXCEPT !.mounted = res.mounted,
                                                        !.replaced = res.mounted /\ rootRef["solution"] # 0]
    /\ timers' = RemoveAt(timers, i)
    /\ UNCHANGED <<questionId, userFiles, solutionFiles, activeFile, lastQuestionId, isRunning,
                   compilationError, assessmentScore, showPreview, showSolutionPreview,
                   container, testing, submitting, completed, hostTimers>>

\* the questionId prop changes (Previous, Next, auto-advance): the effect
\* "Initialize on question change" runs
QuestionChangeEffect(q) ==
    /\ q # questionId
    /\ questionId' = q
    /\ q # lastQuestionId
    /\ userFiles' = StarterFiles(q)
    /\ activeFile' = StarterActiveFile(q)
    /\ solutionFiles' = SolutionFiles(q)
    /\ lastQuestionId' = q
    /\ consoleOutput' = <<>>
    /\ compilationError' = ""
    /\ assessmentScore' = 0
    /\ SetDom(ClearRoot(ClearRoot(Dom, "user"), "solution"))
    /\ timers' = MarkStale(timers)
    /\ lastEvent' = [Event("questionChange") EXCEPT !.replaced = \A side \in Sides : rootRef[side] # 0]
    /\ UNCHANGED <<isRunning, showPreview, showSolutionPreview, container,
                   testing, submitting, completed>>
QuestionChange(q) == QuestionChangeEffect(q) /\ UNCHANGED hostTimers

\* handleEditorChange(value)
EditorChange(value) ==
    /\ value # FileOr(userFiles, activeFile)
    /\ userFiles' = [f \in DOMAIN userFiles \cup {activeFile} |->
                        IF f = activeFile THEN value ELSE userFiles[f]]
    /\ compilationError' = ""
    /\ lastEvent' = Idle
    /\ UNCHANGED <<questionId, solutionFiles, activeFile, lastQuestionId, isRunning,
                   consoleOutput, assessmentScore, showPreview, showSolutionPreview,
                   container, rootRef, elementRef, roots, timers, testing, submitting,
                   completed, hostTimers>>

\* what may be typed as the name of a new file; a name without a dot gets .jsx
NewFileNames == {"App", "App.js", "Util", "Util.jsx"}
WithExtension(name) == IF name \in {"App", "Util"} THEN name \o ".jsx" ELSE name
\* createNewFile() with newFileName typed: the file gets the template text
\* "NEW"; !userFiles[newFileName] looks the typed name up and takes an empty
\* text for no file
createNewFile(newFileName) ==
    /\ Multiple
    /\ FileOr(userFiles, newFileName) = ""
    /\ LET filename == WithExtension(newFileName)
       IN /\ userFiles' = [f \in DOMAIN userFiles \cup {filename} |->
                               IF f = filename THEN "NEW" ELSE userFiles[f]]
          /\ activeFile' = filename
    /\ lastEvent' = Event("createNewFile")
    /\ UNCHANGED <<questionId, solutionFiles, lastQuestionId, isRunning, consoleOutput,
                   compilationError, assessmentScore, showPreview, showSolutionPreview,
                   container, rootRef, elementRef, roots, timers, testing, submitting,
                   completed, hostTimers>>

\* deleteFile(filename), from the delete button of a listed file
deleteFile(filename) ==
    /\ Multiple
    /\ filename \in DOMAIN userFiles
    /\ filename # "App.jsx"
    /\ Cardinality(DOMAIN userFiles) > 1
    /\ userFiles' = [f \in DOMAIN userFiles \ {filename} |-> userFiles[f]]
    /\ activeFile' = IF activeFile = filename THEN "App.jsx" ELSE activeFile
    /\ lastEvent' = [Event("deleteFile") EXCEPT !.program = <<filename>>]
    /\ UNCHANGED <<questionId, solutionFiles, lastQuestionId, isRunning, consoleOutput,
                   compilationError, assessmentScore, showPreview, showSolutionPreview,
                   container, rootRef, elementRef, roots, timers, testing, submitting,
                   completed, hostTimers>>

\* a click on a listed file: setActiveFile(filename)
SelectFile(filename) ==
    /\ Multiple
    /\ filename \in DOMAIN userFiles
    /\ filename # activeFile
    /\ activeFile' = filename
    /\ lastEvent' = Idle
    /\ UNCHANGED <<questionId, userFiles, solutionFiles, lastQuestionId, isRunning,
                   consoleOutput, compilationError, assessmentScore, showPreview,
                   showSolutionPreview, container, rootRef, elementRef, roots, timers,
                   testing, submitting, completed, hostTimers>>

\* the div of a side leaves the page, or a new one enters it
ToggleContainer(side) ==
    LET cont == [container EXCEPT ![side] = IF container[side] # 0 THEN 0 ELSE 1]
    IN /\ container' = cont
       /\ roots' = Renamed(Dom, cont).roots
       /\ elementRef' = Renamed(Dom, cont).elementRef

\* the Clear button of the console panel
ClearConsole ==
    /\ consoleOutput # <<>>
    /\ consoleOutput' = <<>>
    /\ lastEvent' = Event("clearConsole")
    /\ UNCHANGED <<questionId, userFiles, solutionFiles, activeFile, lastQuestionId, isRunning,
                   compilationError, assessmentScore, showPreview, showSolutionPreview,
                   container, rootRef, elementRef, roots, timers, testing, submitting,
                   completed, hostTimers>>

\* togglePreview
TogglePreview ==
    /\ showPreview' = ~showPreview
    /\ ToggleContainer("user")
    /\ lastEvent' = Idle
    /\ UNCHANGED <<questionId, userFiles, solutionFiles, activeFile, lastQuestionId, isRunning,
                   consoleOutput, compilationError, assessmentScore, showSolutionPreview,
                   rootRef, timers, testing, submitting, completed, hostTimers>>

\* toggleSolutionPreview
ToggleSolutionPreview ==
    /\ showSolutionPreview' = ~showSolutionPreview
    /\ ToggleContainer("solution")
    /\ lastEvent' = Idle
    /\ UNCHANGED <<questionId, userFiles, solutionFiles, activeFile, lastQuestionId, isRunning,
                   consoleOutput, compilationError, assessmentScore, showPreview,
                   rootRef, timers, testing, submitting, completed, hostTimers>>

\* the deferred step of handleRunAndTest: the score is read, testing ends
TimerTestDone(i) ==
    /\ Due(hostTimers, i)
    /\ hostTimers[i].kind = "testDone"
    /\ testing' = FALSE
    /\ hostTimers' = RemoveAt(hostTimers, i)
    /\ lastEvent' = Idle
    /\ UNCHANGED <<questionId, userFiles, solutionFiles, activeFile, lastQuestionId, isRunning,
                   consoleOutput, compilationError, assessmentScore, showPreview,
                   showSolutionPreview, container, rootRef, elementRef, roots, timers,
                   submitting, completed>>

\* handleSubmitCurrentQuestion after its wait: the question is completed
TimerSubmitDone(i) ==
    /\ Due(hostTimers, i)
    /\ hostTimers[i].kind = "submitDone"
    /\ submitting' = FALSE
    /\ completed' = completed \cup {hostTimers[i].q}
    /\ hostTimers' = RemoveAt(hostTimers, i)
    /\ lastEvent' = Idle
    /\ UNCHANGED <<questionId, userFiles, solutionFiles, activeFile, lastQuestionId, isRunning,
                   consoleOutput, compilationError, assessmentScore, showPreview,
                   showSolutionPreview, container, rootRef, elementRef, roots, timers,
                   testing>>

\* time passes, up to the next due timer
Tick ==
    /\ TimeLeft # {}
    /\ 0 \notin TimeLeft
    /\ LET least == CHOOSE m \in TimeLeft : \A n \in TimeLeft : m <= n
           step == Min(TickMs, least)
       IN /\ timers' = [i \in 1..Len(timers) |-> [timers[i] EXCEPT !.left = @ - step]]
          /\ hostTimers' = [i \in 1..Len(hostTimers) |-> [hostTimers[i] EXCEPT !.left = @ - step]]
    /\ lastEvent' = Idle
    /\ UNCHANGED <<questionId, userFiles, solutionFiles, activeFile, lastQuestionId, isRunning,
                   consoleOutput, compilationError, assessmentScore, showPreview,
                   showSolutionPreview, container, rootRef, elementRef, roots, testing,
                   submitting, completed>>

TimerFires ==
    \E i \in 1..Len(timers) :
        \/ TimerRunUser(i)
        \/ TimerCompare(i)
        \/ TimerResetRender(i)

\* the deferred steps of a run
RunTimerFires == \E i \in 1..Len(timers) : TimerRunUser(i) \/ TimerCompare(i)

HostTimerFires ==
    \E i \in 1..Len(hostTimers) :
        \/ TimerTestDone(i)
        \/ TimerSubmitDone(i)

(***************************************************************************)
(* pages/AssessmentRunner.tsx: navigation, submission of a question, the   *)
(* delayed move to the next question and the final submission.  The        *)
(* question shown to CodeRunner is questions[currentQuestionIndex], so     *)
(* questionId is currentQuestionIndex + 1 while the index is in range; an  *)
(* index out of range makes currentQuestion undefined and the render of    *)
(* the page throw (crashed).                                               *)
(***************************************************************************)
\* goToPreviousQuestion, from the Previous button
goToPreviousQuestion ==
    /\ ~page.crashed
    /\ page.currentQuestionIndex > 0
    /\ page' = [page EXCEPT !.currentQuestionIndex = @ - 1]
    /\ QuestionChange(page.currentQuestionIndex)
    /\ UNCHANGED <<fnVars, auth>>

\* goToNextQuestion, from the Next button
goToNextQuestion ==
    /\ ~page.crashed
    /\ page.currentQuestionIndex < NumQuestions - 1
    /\ page' = [page EXCEPT !.currentQuestionIndex = @ + 1]
    /\ QuestionChange(page.currentQuestionIndex + 2)
    /\ UNCHANGED <<fnVars, auth>>

\* handleSubmitCurrentQuestion up to its wait of one second
handleSubmitCurrentQuestion ==
    /\ ~page.crashed
    /\ HandleSubmit
    /\ UNCHANGED <<fnVars, appVars>>

\* handleSubmitCurrentQuestion after its wait, for the index its closure
\* holds: the score is read and stored, the question is completed, and
\* either the move to the next question is set for later or
\* submitFinalAssessment(newScores) is called; stored tells whether addDoc
\* succeeded.  No other submission runs during the wait (submitting), so the
\* arrays the closure holds are the current ones.
SubmitWaitOver(i) ==
    /\ ~page.crashed
    /\ Due(hostTimers, i)
    /\ hostTimers[i].kind = "submitDone"
    /\ LET index == hostTimers[i].q - 1
           newScores == [page.questionScores EXCEPT ![index + 1] = assessmentScore]
       IN /\ completed' = completed \cup {index + 1}
          /\ IF index < NumQuestions - 1
             THEN /\ hostTimers' = Append(RemoveAt(hostTimers, i),
                                          HostTimer("advance", AdvanceDelayMs, index + 1))
                  /\ page' = [page EXCEPT !.questionScores = newScores]
                  /\ auth' = auth
             ELSE /\ hostTimers' = RemoveAt(hostTimers, i)
                  /\ \E stored \in BOOLEAN :
                        /\ page' = [page EXCEPT
                                      !.questionScores = newScores,
                                      !.finalCalls = @ + 1,
                                      !.submissions = IF stored THEN Append(@, newScores) ELSE @]
                        /\ auth' = IF stored THEN ProfileUpdated(auth, AssessmentId) ELSE auth
    /\ submitting' = FALSE
    /\ lastEvent' = Idle
    /\ UNCHANGED <<questionId, userFiles, solutionFiles, activeFile, lastQuestionId, isRunning,
                   consoleOutput, compilationError, assessmentScore, showPreview,
                   showSolutionPreview, container, rootRef, elementRef, roots, timers,
                   testing>>
    /\ UNCHANGED fnVars

\* the deferred move to the next question: setCurrentQuestionIndex(prev => prev + 1)
AdvanceFires(i) ==
    /\ ~page.crashed
    /\ Due(hostTimers, i)
    /\ hostTimers[i].kind = "advance"
    /\ hostTimers' = RemoveAt(hostTimers, i)
    /\ LET next == page.currentQuestionIndex + 1
       IN /\ page' = [page EXCEPT !.currentQuestionIndex = next,
                                  !.crashed = next > NumQuestions - 1]
          /\ IF next <= NumQuestions - 1
             THEN QuestionChangeEffect(next + 1)
             ELSE /\ lastEvent' = Idle
                  /\ UNCHANGED <<questionId, userFiles, solutionFiles, activeFile,
                                 lastQuestionId, isRunning, consoleOutput, compilationError,
                                 assessmentScore, showPreview, showSolutionPreview, container,
                                 rootRef, elementRef, roots, timers, testing, submitting,
                                 completed>>
    /\ UNCHANGED <<fnVars, auth>>

(***************************************************************************)
(* contexts/AuthContext.tsx with Firebase Auth and the users collection    *)
(* behind it, components/ProtectedRoute.tsx, and the two other writers of  *)
(* a user document: handleRoleChange of pages/admin/ManageUsers.tsx and    *)
(* the profile update of submitFinalAssessment.                            *)
(***************************************************************************)
Names == {"Ann"}
\* login reads the identifier name, which is not declared in its scope: the
\* global window.name, the empty string in a page that never set it
WindowName == ""
AssessmentIds == {AssessmentId}
MaxPending == 2
Pend(kind, uid, data) == [kind |-> kind, uid |-> uid, data |-> data]
AuthEvent(a, op) == [a EXCEPT !.last = AuthStep(op, 0, NoProfile)]

\* register(email, password, name) up to the creation of the account, which
\* signs the new user in; an email in use makes it throw
register(u, name) ==
    /\ u \notin auth.accounts
    /\ Len(auth.pending) + 2 <= MaxPending
    /\ auth' = [AuthEvent(auth, "idle") EXCEPT
                  !.accounts = @ \cup {u},
                  !.session = u,
                  !.pending = @ \o <<Pend("authStateChanged", u, NoProfile),
                                     Pend("registerStores", u, Profile(u, "user", name, {}))>>]
    /\ UNCHANGED <<runnerVars, fnVars, page>>

\* register after createUserWithEmailAndPassword: setDoc, setUserProfile
registerStores(i) ==
    /\ i \in 1..Len(auth.pending)
    /\ auth.pending[i].kind = "registerStores"
    /\ LET u == auth.pending[i].uid
           profile == auth.pending[i].data
       IN auth' = [auth EXCEPT !.users[u] = profile,
                               !.userProfile = profile,
                               !.pending = RemoveAt(@, i),
                               !.last = AuthStep("register", u, auth.users[u])]
    /\ UNCHANGED <<runnerVars, fnVars, page>>

\* login(email, password) up to the sign-in; no account or a wrong password
\* makes it throw
login(u) ==
    /\ u \in auth.accounts
    /\ Len(auth.pending) + 2 <= MaxPending
    /\ auth' = [AuthEvent(auth, "idle") EXCEPT
                  !.session = u,
                  !.pending = @ \o <<Pend("authStateChanged", u, NoProfile),
                                     Pend("loginStores", u,
                                          Profile(u, "user", WindowName, {}))>>]
    /\ UNCHANGED <<runnerVars, fnVars, page>>

\* login after signInWithEmailAndPassword: setDoc(doc(db, 'users', uid),
\* profile) without merge, setUserProfile(profile)
loginStores(i) ==
    /\ i \in 1..Len(auth.pending)
    /\ auth.pending[i].kind = "loginStores"
    /\ LET u == auth.pending[i].uid
           profile == auth.pending[i].data
       IN auth' = [auth EXCEPT !.users[u] = profile,
                               !.userProfile = profile,
                               !.pending = RemoveAt(@, i),
                               !.last = AuthStep("login", u, auth.users[u])]
    /\ UNCHANGED <<runnerVars, fnVars, page>>

\* logout: signOut, setUserProfile(null)
logout ==
    /\ auth.session # 0
    /\ Len(auth.pending) + 1 <= MaxPending
    /\ auth' = [AuthEvent(auth, "idle") EXCEPT
                  !.session = 0,
                  !.userProfile = NoProfile,
                  !.pending = Append(@, Pend("authStateChanged", 0, NoProfile))]
    /\ UNCHANGED <<runnerVars, fnVars, page>>

\* the onAuthStateChanged callback up to its getDoc: setCurrentUser(user);
\* without a user it sets the profile to null and ends loading
authStateChanged(i) ==
    /\ i \in 1..Len(auth.pending)
    /\ auth.pending[i].kind = "authStateChanged"
    /\ LET u == auth.pending[i].uid
       IN auth' = IF u = 0
                  THEN [AuthEvent(auth, "idle") EXCEPT
                          !.currentUser = 0,
                          !.userProfile = NoProfile,
                          !.loading = FALSE,
                          !.pending = RemoveAt(@, i)]
                  ELSE [AuthEvent(auth, "idle") EXCEPT
                          !.currentUser = u,
                          !.pending = [@ EXCEPT ![i] = Pend("profileFetched", u, auth.users[u])]]
    /\ UNCHANGED <<runnerVars, fnVars, page>>

\* the callback after getDoc: setUserProfile(userDoc.data()) when the
\* document exists, setLoading(false)
profileFetched(i) ==
    /\ i \in 1..Len(auth.pending)
    /\ auth.pending[i].kind = "profileFetched"
    /\ auth' = [AuthEvent(auth, "idle") EXCEPT
                  !.userProfile = IF auth.pending[i].data # NoProfile
                                  THEN auth.pending[i].data ELSE @,
                  !.loading = FALSE,
                  !.pending = RemoveAt(@, i)]
    /\ UNCHANGED <<runnerVars, fnVars, page>>

\* handleRoleChange(userId, newRole) of ManageUsers, and the same write made
\* in the Firestore console for the first administrator: updateDoc merges
\* the role into a document that exists
handleRoleChange(userId, newRole) ==
    /\ auth.users[userId] # NoProfile
    /\ auth.users[userId].role # newRole
    /\ auth' = [AuthEvent(auth, "idle") EXCEPT !.users[userId].role = newRole]
    /\ UNCHANGED <<runnerVars, fnVars, page>>

\* a final submission by the user signed in, seen from the users collection
profileUpdate(id) ==
    /\ ProfileUpdated(auth, id) # auth
    /\ auth' = AuthEvent(ProfileUpdated(auth, id), "idle")
    /\ UNCHANGED <<runnerVars, fnVars, page>>

\* what ProtectedRoute renders: the spinner, a redirect, or the route
ProtectedRoute(adminOnly) ==
    IF auth.loading THEN "LoadingSpinner"
    ELSE IF auth.currentUser = 0 \/ auth.userProfile = NoProfile THEN "/login"
    ELSE IF adminOnly /\ auth.userProfile.role # "admin" THEN "/dashboard"
    ELSE "Outlet"

\* the provider under register, login, logout, role changes and final
\* submissions, the asynchronous steps completing in any order
SpecAuth ==
    /\ Init
    /\ [][\/ (\E u \in Uids, name \in Names : register(u, name))
         \/ (\E u \in Uids : login(u))
         \/ logout
         \/ (\E i \in 1..MaxPending : registerStores(i))
         \/ (\E i \in 1..MaxPending : loginStores(i))
         \/ (\E i \in 1..MaxPending : authStateChanged(i))
         \/ (\E i \in 1..MaxPending : profileFetched(i))
         \/ (\E u \in Uids, r \in {"admin", "user"} : handleRoleChange(u, r))
         \/ (\E id \in AssessmentIds : profileUpdate(id))]_vars

\* AssessmentRunner with its CodeRunner: Previous, Next, Submit, and the
\* deferred steps of the page and of the runs
SpecPage ==
    /\ Init
    /\ [][\/ goToPreviousQuestion
         \/ goToNextQuestion
         \/ handleSubmitCurrentQuestion
         \/ (\E i \in 1..Len(hostTimers) : SubmitWaitOver(i))
         \/ (\E i \in 1..Len(hostTimers) : AdvanceFires(i))
         \/ (~page.crashed /\ RunTimerFires /\ UNCHANGED restVars)
         \/ (~page.crashed /\ Tick /\ UNCHANGED restVars)]_vars

\* CodeRunner under its own controls: Run Code, Reset, the editor, the two
\* preview switches, and the question shown changing
Next ==
    \/ (RunButton /\ UNCHANGED restVars)
    \/ (ResetCode /\ UNCHANGED restVars)
    \/ (ClearConsole /\ UNCHANGED restVars)
    \/ (\E q \in QuestionIds : QuestionChange(q) /\ UNCHANGED restVars)
    \/ (\E v \in Codes : EditorChange(v) /\ UNCHANGED restVars)
    \/ (TogglePreview /\ UNCHANGED restVars)
    \/ (ToggleSolutionPreview /\ UNCHANGED restVars)
    \/ (TimerFires /\ UNCHANGED restVars)
    \/ (Tick /\ UNCHANGED restVars)

Spec == Init /\ [][Next]_vars

\* CodeRunner as AssessmentRunner drives it on the code each question starts
\* with: Run Code, Reset, Run & Test, Submit, and the question shown changing
NextHost ==
    \/ (RunButton /\ UNCHANGED restVars)
    \/ (HandleRunAndTest /\ UNCHANGED restVars)
    \/ (HandleSubmit /\ UNCHANGED restVars)
    \/ (ResetCode /\ UNCHANGED restVars)
    \/ (\E q \in QuestionIds : QuestionChange(q) /\ UNCHANGED restVars)
    \/ (TimerFires /\ UNCHANGED restVars)
    \/ (HostTimerFires /\ UNCHANGED restVars)
    \/ (Tick /\ UNCHANGED restVars)

SpecHost == Init /\ [][NextHost]_vars

\* CodeRunner on one question: Run Code, Reset, the editor and the two preview
\* switches; the event loop runs every callback that is due and time passes
SpecReset ==
    /\ Init
    /\ [][\/ (RunButton /\ UNCHANGED restVars)
         \/ (ResetCode /\ UNCHANGED restVars)
         \/ (ClearConsole /\ UNCHANGED restVars)
         \/ (\E v \in Codes : EditorChange(v) /\ UNCHANGED restVars)
         \/ (TogglePreview /\ UNCHANGED restVars)
         \/ (ToggleSolutionPreview /\ UNCHANGED restVars)
         \/ (TimerFires /\ UNCHANGED restVars)
         \/ (Tick /\ UNCHANGED restVars)]_vars
    /\ WF_vars(TimerFires /\ UNCHANGED restVars)
    /\ WF_vars(Tick /\ UNCHANGED restVars)

\* the run cycle: Run Code, the editor and the two preview switches, the two
\* callbacks of a run and time passing.  A callback that is due is run by the
\* event loop and time does not stop, whatever the user does meanwhile.
\* the same steps told apart from the score a comparison stores, which is
\* some score whenever the callback runs: the steps fairness is stated on
RunTimerDue ==
    \E i \in 1..Len(timers) :
        \/ TimerRunUser(i)
        \/ (TimerCompareStep(i) /\ assessmentScore' \in 0..100)
SpecCycle ==
    /\ Init
    /\ [][\/ (RunButton /\ UNCHANGED restVars)
         \/ (\E v \in Codes : EditorChange(v) /\ UNCHANGED restVars)
         \/ (TogglePreview /\ UNCHANGED restVars)
         \/ (ToggleSolutionPreview /\ UNCHANGED restVars)
         \/ (RunTimerFires /\ UNCHANGED restVars)
         \/ (Tick /\ UNCHANGED restVars)]_vars
    /\ WF_vars(RunTimerDue /\ UNCHANGED restVars)
    /\ WF_vars(Tick /\ UNCHANGED restVars)

\* CodeRunner on files that never change: Run Code and the two preview
\* switches, with no edit, reset or question change
SpecPreview ==
    /\ Init
    /\ [][\/ (RunButton /\ UNCHANGED restVars)
         \/ (TogglePreview /\ UNCHANGED restVars)
         \/ (ToggleSolutionPreview /\ UNCHANGED restVars)
         \/ (TimerFires /\ UNCHANGED restVars)
         \/ (Tick /\ UNCHANGED restVars)]_vars

\* CodeRunner on the question with two starter files: Run Code, Reset, the
\* editor and the choice of the file shown
BundleQuestion == CHOOSE q \in FileQuestionIds : Cardinality(DOMAIN StarterFiles(q)) > 1
SpecBundle ==
    /\ RunnerAt(BundleQuestion)
    /\ FnIdle
    /\ [][\/ (RunButton /\ UNCHANGED restVars)
         \/ (ResetCode /\ UNCHANGED restVars)
         \/ (\E v \in Codes : EditorChange(v) /\ UNCHANGED restVars)
         \/ (\E f \in FileNames : SelectFile(f) /\ UNCHANGED restVars)
         \/ (TimerFires /\ UNCHANGED restVars)
         \/ (Tick /\ UNCHANGED restVars)]_vars

\* the file list of a question with several files: the editor, New File,
\* delete, the choice of the file shown, Reset and the question shown changing
SpecFiles ==
    /\ \E q \in FileQuestionIds : RunnerAt(q)
    /\ FnIdle
    /\ [][\/ (\E v \in Codes : EditorChange(v) /\ UNCHANGED restVars)
         \/ (\E name \in NewFileNames : createNewFile(name) /\ UNCHANGED restVars)
         \/ (\E f \in FileNames : deleteFile(f) /\ UNCHANGED restVars)
         \/ (\E f \in FileNames : SelectFile(f) /\ UNCHANGED restVars)
         \/ (ResetCode /\ UNCHANGED restVars)
         \/ (\E q \in FileQuestionIds : QuestionChange(q) /\ UNCHANGED restVars)
         \/ (\E i \in 1..Len(timers) : TimerResetRender(i) /\ UNCHANGED restVars)]_vars

\* the runner on the question of several files, under runs, edits, new files
\* and deletions, with a user who changes the files only between runs: no
\* deferred step of a run holds files other than the ones on screen
SpecErrorFlag ==
    /\ RunnerAt(BundleQuestion)
    /\ FnIdle
    /\ [][\/ (RunButton /\ UNCHANGED restVars)
         \/ (~isRunning /\ \E v \in Codes : EditorChange(v) /\ UNCHANGED restVars)
         \/ (~isRunning /\ \E name \in NewFileNames : createNewFile(name) /\ UNCHANGED restVars)
         \/ (~isRunning /\ \E f \in FileNames : deleteFile(f) /\ UNCHANGED restVars)
         \/ (\E f \in FileNames : SelectFile(f) /\ UNCHANGED restVars)
         \/ (RunTimerFires /\ UNCHANGED restVars)
         \/ (Tick /\ UNCHANGED restVars)]_vars

(***************************************************************************)
(* calculateAssessmentScore applied to one result and two visual ratios    *)
(***************************************************************************)
InitScore ==
    /\ RunnerIdle
    /\ fn = "none"
    /\ fnArgs \in [structuralResult : ComparisonResults, visualSim : VisualRatios]
    /\ fnOut = [score |-> 0, visualSim2 |-> Rat(0, VisualDen), score2 |-> 0]

ApplyScore ==
    /\ fn = "none"
    /\ \E v2 \in VisualRatios :
          fnOut' = [score |-> calculateAssessmentScore(fnArgs.structuralResult, fnArgs.visualSim),
                    visualSim2 |-> v2,
                    score2 |-> calculateAssessmentScore(fnArgs.structuralResult, v2)]
    /\ fn' = "calculateAssessmentScore"
    /\ UNCHANGED <<fnArgs, runnerVars, appVars>>

NextScore == ApplyScore
SpecScore == InitScore /\ [][NextScore]_vars

(***************************************************************************)
(* structuralEqual applied to two nodes                                    *)
(***************************************************************************)
InitCompare ==
    /\ RunnerIdle
    /\ fn = "none"
    /\ fnArgs \in [expected : Nodes, actual : Nodes, native : BOOLEAN]
    /\ fnOut = [equal |-> TRUE, diffs |-> <<>>]

ApplyStructuralEqual ==
    /\ fn = "none"
    /\ fnOut' = structuralEqual(fnArgs.expected, fnArgs.actual, fnArgs.native)
    /\ fn' = "structuralEqual"
    /\ UNCHANGED <<fnArgs, runnerVars, appVars>>

NextCompare == ApplyStructuralEqual
SpecCompare == InitCompare /\ [][NextCompare]_vars

(***************************************************************************)
(* visualSimilarity applied to two nodes                                   *)
(***************************************************************************)
\* the trees of the comparison pool and what the runner renders
VisualNodes == Nodes \cup {TreeCompA, TreeCompB, TreeNotFound, TreeRuntimeError, TreeNoCode}
InitVisual ==
    /\ RunnerIdle
    /\ fn = "none"
    /\ fnArgs \in [expected : VisualNodes, actual : VisualNodes, styleOk : BOOLEAN]
    /\ fnOut = [value |-> RatInt(0), score |-> RatInt(0), totalChecks |-> 0]

\* fnOut keeps the value returned and the two accumulators as they stand
\* when the function returns
ApplyVisualSimilarity ==
    /\ fn = "none"
    /\ LET counted == /\ isElementNode(fnArgs.expected) /\ isElementNode(fnArgs.actual)
                      /\ fnArgs.styleOk
           t == IF counted THEN VisualTally(fnArgs.expected, fnArgs.actual)
                ELSE [score |-> RatInt(0), totalChecks |-> 0]
       IN fnOut' = [value |-> visualSimilarity(fnArgs.expected, fnArgs.actual, fnArgs.styleOk),
                    score |-> t.score, totalChecks |-> t.totalChecks]
    /\ fn' = "visualSimilarity"
    /\ UNCHANGED <<fnArgs, runnerVars, appVars>>

SpecVisual == InitVisual /\ [][ApplyVisualSimilarity]_vars

(***************************************************************************)
(* Claims                                                                 *)
(***************************************************************************)
ScoreDone == fn = "calculateAssessmentScore"
CompareDone == fn = "structuralEqual"

\* C5: calculateAssessmentScore returns an integer between 0 and 100 for every
\* comparison result and every visual ratio, also for ratios outside [0,1].
C5_ScoreBound ==
    ScoreDone => /\ fnOut.score \in 0..100
                 /\ fnOut.score2 \in 0..100
C5_Witness ==
    /\ ScoreDone
    /\ ~fnArgs.structuralResult.equal
    /\ CountSeverity(fnArgs.structuralResult.diffs, "high") = MaxDiffs
    /\ fnArgs.visualSim.n < 0
    /\ fnOut.visualSim2.n > VisualDen
    /\ fnOut.score = 0

\* C8: for a fixed comparison result, a greater visual ratio never gives a
\* smaller score.
C8_Monotone ==
    (ScoreDone /\ RatLT(fnArgs.visualSim, fnOut.visualSim2)) => fnOut.score2 >= fnOut.score
C8_Witness ==
    /\ ScoreDone
    /\ fnArgs.structuralResult.equal
    /\ RatLE(fnArgs.visualSim, Rat(9, 10))
    /\ RatLT(Rat(9, 10), fnOut.visualSim2)
    /\ fnOut.score2 > fnOut.score

\* C9: the score is round(clamp(S + clamp01(v) * 30 + B, 0, 100)), S being 70
\* for an equal result and otherwise max(0, 70 - (20 high + 10 medium + 5 low)),
\* B being 5 exactly when the result is equal and v > 0.9; an equal result at
\* v = 1 scores 100 and a single high diff at v = 0.6 scores 68.
C9_S(r) ==
    IF r.equal THEN 70
    ELSE Max(0, 70 - (20 * CountSeverity(r.diffs, "high")
                      + 10 * CountSeverity(r.diffs, "medium")
                      + 5 * CountSeverity(r.diffs, "low")))
C9_B(r, v) == IF r.equal /\ RatLT(Rat(9, 10), v) THEN 5 ELSE 0
C9_Formula(r, v) ==
    MathRound(clamp(RatAdd(RatInt(C9_S(r) + C9_B(r, v)), RatMul(clamp01(v), RatInt(30))), 0, 100))
C9_ScoreFormula ==
    ScoreDone =>
        /\ fnOut.score = C9_Formula(fnArgs.structuralResult, fnArgs.visualSim)
        /\ fnOut.score2 = C9_Formula(fnArgs.structuralResult, fnOut.visualSim2)
        /\ (fnArgs.structuralResult.equal /\ RatEQ(fnArgs.visualSim, RatInt(1)))
              => fnOut.score = 100
        /\ (/\ ~fnArgs.structuralResult.equal
            /\ Len(fnArgs.structuralResult.diffs) = 1
            /\ CountSeverity(fnArgs.structuralResult.diffs, "high") = 1
            /\ RatEQ(fnArgs.visualSim, Rat(6, 10)))
              => fnOut.score = 68
C9_Witness ==
    /\ ScoreDone
    /\ ~fnArgs.structuralResult.equal
    /\ Len(fnArgs.structuralResult.diffs) = 1
    /\ CountSeverity(fnArgs.structuralResult.diffs, "high") = 1
    /\ RatEQ(fnArgs.visualSim, Rat(6, 10))
    /\ fnOut.score = 68
    /\ RatEQ(fnOut.visualSim2, Rat(19, 20))
    /\ fnOut.score2 = 79

\* C6: the equal flag of structuralEqual is true exactly when the returned diff
\* list has no high-severity diff and at most 2 entries; a non-element operand
\* or native deep equality gives equal with an empty diff list.
C6_FullyCompared ==
    /\ isElementNode(fnArgs.expected)
    /\ isElementNode(fnArgs.actual)
    /\ ~(fnArgs.native /\ fnArgs.expected = fnArgs.actual)
C6_VerdictConsistent ==
    CompareDone =>
        /\ fnOut.equal <=> (/\ \A i \in 1..Len(fnOut.diffs) : fnOut.diffs[i].severity # "high"
                            /\ Len(fnOut.diffs) <= 2)
        /\ ~C6_FullyCompared => (fnOut.equal /\ Len(fnOut.diffs) = 0)
C6_Witness ==
    /\ CompareDone
    /\ C6_FullyCompared
    /\ Len(fnOut.diffs) = 3
    /\ \A i \in 1..Len(fnOut.diffs) : fnOut.diffs[i].severity # "high"
    /\ ~fnOut.equal
C6_WitnessHigh ==
    /\ CompareDone
    /\ C6_FullyCompared
    /\ Len(fnOut.diffs) = 1
    /\ fnOut.diffs[1].severity = "high"
    /\ ~fnOut.equal

\* C7: structuralEqual(T, T) is equal with an empty diff list for every element
\* tree T, also when the native deep-equality path is not taken.
C7_Reflexive ==
    (CompareDone /\ isElementNode(fnArgs.expected) /\ fnArgs.expected = fnArgs.actual)
        => (fnOut.equal /\ Len(fnOut.diffs) = 0)
C7_Witness ==
    /\ CompareDone
    /\ ~fnArgs.native
    /\ fnArgs.expected = fnArgs.actual
    /\ fnArgs.expected \in GrandParents
    /\ fnOut.equal
    /\ Len(fnOut.diffs) = 0

(***************************************************************************)
(* Claims about the run cycle                                             *)
(***************************************************************************)
\* what executeAndRenderCode leaves in a container for these files
RenderOf(files, multiple) ==
    IF TranspileFails(ProgramSource(files, multiple)) THEN TreeCompileError
    ELSE ComponentTree(ProgramSource(files, multiple))
\* the root the handle of a side holds is live on the div in the page and shows content
LiveOn(side, content) ==
    \E r \in roots : r.side = side /\ r.div = 1 /\ r.id = rootRef[side] /\ r.content = content
LiveInPage(side) ==
    \E r \in roots : r.side = side /\ r.div = 1 /\ r.id = rootRef[side]
AllBlank == \A f \in DOMAIN userFiles : TrimLength(userFiles[f]) = 0

\* C1: after a question change or a reset, no deferred step of a run started
\* before it mounts on the user side or stores a score.
C1_NoStaleEffect ==
    lastEvent.stale => (~lastEvent.mounted /\ ~lastEvent.scored)

\* C2: a run never starts, from the Run button or through the runCode handle,
\* while the deferred user-render or comparison step of an earlier run is pending.
C2_OneRunInFlight ==
    lastEvent.op = "runCode" => ~lastEvent.overlapped

\* C3, as written: every run mounts the reference side in its first step.
C3_ReferenceAlwaysMounted ==
    lastEvent.op = "runCode" => LiveOn("solution", RenderOf(solutionFiles, Multiple))

\* C3: every run renders the reference side in its first step, blank user files
\* or not, and mounts it when the reference container is in the page; with user
\* files that are not blank the user side is rendered by a timer set in that
\* step, so in a later step, and mounted when the user container is in the
\* page; the comparison of a run is a third step, set by its user step.
C3_Order ==
    /\ lastEvent.op = "runCode" =>
          /\ lastEvent.steps = 1
          /\ lastEvent.mounted <=> (container["solution"] # 0)
          /\ lastEvent.mounted => LiveOn("solution", RenderOf(solutionFiles, Multiple))
          /\ ~AllBlank =>
                /\ lastEvent.scheduled
                /\ timers # <<>>
                /\ timers[Len(timers)].kind = "runUser"
                /\ timers[Len(timers)].steps = 1
                /\ timers[Len(timers)].left > 0
                /\ timers[Len(timers)].files = userFiles
    /\ lastEvent.op = "userStep" =>
          /\ lastEvent.steps = 2
          /\ lastEvent.mounted <=> (container["user"] # 0)
          /\ lastEvent.mounted => LiveInPage("user")
          /\ lastEvent.scheduled =>
                /\ timers # <<>>
                /\ timers[Len(timers)].kind = "compare"
                /\ timers[Len(timers)].left > 0
    /\ lastEvent.op = "compare" => lastEvent.steps = 2
    /\ \A i \in 1..Len(timers) :
          /\ timers[i].kind = "runUser" => timers[i].steps = 1
          /\ timers[i].kind = "compare" => timers[i].steps = 2
C3_Witness ==
    /\ lastEvent.op = "compare"
    /\ ~lastEvent.stale
    /\ lastEvent.steps = 2
    /\ LiveOn("solution", TreeCompA)
    /\ LiveOn("user", TreeCompA)
    /\ assessmentScore = 100
C3_WitnessHidden ==
    /\ lastEvent.op = "runCode"
    /\ ~lastEvent.mounted
    /\ container["solution"] = 0
    /\ lastEvent.scheduled

\* C4: each side has at most one live root, a root that takes the place of
\* another is there only once the other is unmounted, and every live root is
\* the one its side's handle holds.
C4_OneLiveRoot ==
    \A side \in Sides :
        /\ Cardinality({r \in roots : r.side = side}) <= 1
        /\ \A r \in roots : r.side = side => r.id = rootRef[side]
        /\ rootRef[side] # 0 => \E r \in roots : r.side = side /\ r.id = rootRef[side]
C4_Witness ==
    /\ lastEvent.op = "userStep"
    /\ lastEvent.replaced
    /\ Cardinality(roots) = 2
    /\ LiveInPage("user")
    /\ LiveInPage("solution")
C4_WitnessDetached ==
    /\ lastEvent.replaced
    /\ \E r \in roots : r.div = 2

\* C10, as written: a run on blank user files mounts the placeholder on the user side.
C10_PlaceholderAlwaysMounted ==
    (lastEvent.op = "runCode" /\ AllBlank) => LiveOn("user", TreeNoCode)

\* C10: when every user file is blank after trimming, the run sets no user
\* step (so the user code is not transformed, evaluated, mounted or compared),
\* ends at once with the score 0, and mounts the placeholder on the user side
\* when the user container is in the page.
C10_BlankRun ==
    (lastEvent.op = "runCode" /\ AllBlank) =>
        /\ lastEvent.emptyUser
        /\ ~lastEvent.scheduled
        /\ ~isRunning
        /\ assessmentScore = 0
        /\ container["user"] # 0 => LiveOn("user", TreeNoCode)
        /\ \A i \in 1..Len(timers) : timers[i].kind = "runUser" => timers[i].files # userFiles
C10_Witness ==
    /\ lastEvent.op = "runCode"
    /\ userFiles = SingleFile("WS")
    /\ lastEvent.emptyUser
    /\ LiveOn("user", TreeNoCode)
    /\ assessmentScore = 0
    /\ ~isRunning

(***************************************************************************)
(* Claims about failures of the user code                                 *)
(***************************************************************************)
\* the user step just taken was given a program that transpiles and throws
\* when it is evaluated
ThrowingUserStep ==
    /\ lastEvent.op = "userStep"
    /\ HasPart(lastEvent.program, "THROWS")
    /\ ~HasPart(lastEvent.program, "SYNTAX")

\* C11, as written: a user step whose program throws on evaluation mounts the
\* Runtime Error artifact on the user side.
C11_ErrorArtifactMounted ==
    ThrowingUserStep => LiveOn("user", TreeRuntimeError)

\* C11: when evaluating the user bundle throws, executeAndRenderCode reports
\* success (the comparison step is set), logs the error to the console, and
\* mounts the Runtime Error artifact when the user container is in the page;
\* the comparison step then stores the score of the reference output against
\* that artifact when both are mounted in the page.
C11_RuntimeErrorRun ==
    /\ ThrowingUserStep =>
          /\ lastEvent.scheduled
          /\ timers # <<>>
          /\ timers[Len(timers)].kind = "compare"
          /\ lastEvent.mounted <=> (container["user"] # 0)
          /\ lastEvent.mounted => (LiveOn("user", TreeRuntimeError) /\ elementRef["user"] = 1)
          /\ consoleOutput # <<>>
          /\ consoleOutput[Len(consoleOutput)] = "ERROR: Execution error"
    /\ (/\ lastEvent.op = "compare"
        /\ LiveOn("user", TreeRuntimeError) /\ elementRef["user"] = 1
        /\ LiveOn("solution", TreeCompA) /\ elementRef["solution"] = 1) =>
          assessmentScore =
              calculateAssessmentScore(structuralEqual(TreeCompA, TreeRuntimeError, TRUE),
                                       visualSimilarity(TreeCompA, TreeRuntimeError, TRUE))
C11_Witness ==
    /\ lastEvent.op = "compare"
    /\ ~lastEvent.stale
    /\ LiveOn("user", TreeRuntimeError)
    /\ LiveOn("solution", TreeCompA)
    /\ elementRef = [s \in Sides |-> 1]
    /\ assessmentScore > 0
    /\ assessmentScore < 70
    /\ ~isRunning

\* the user step just taken was given a program the transpiler rejects
FailingUserStep ==
    /\ lastEvent.op = "userStep"
    /\ HasPart(lastEvent.program, "SYNTAX")
SolutionRoots == {r \in roots : r.side = "solution"}

C13_QuestionChange ==
    [][lastEvent'.op = "questionChange" =>
          /\ questionId' # questionId
          /\ roots' = {}
          /\ rootRef' = [side \in Sides |-> 0]
          /\ userFiles' = StarterFiles(questionId')
          /\ solutionFiles' = SolutionFiles(questionId')
          /\ lastQuestionId' = questionId'
          /\ consoleOutput' = <<>>
          /\ compilationError' = ""
          /\ assessmentScore' = 0
    ]_vars
C13_Witness ==
    /\ lastEvent.op = "questionChange"
    /\ lastEvent.replaced
    /\ roots = {}
    /\ userFiles = StarterFiles(questionId)

UserRoots == {r \in roots : r.side = "user"}
\* a render or comparison step of a run that a reset came after
StepAfterReset ==
    /\ lastEvent.op \in {"userStep", "compare"}
    /\ lastEvent.stale

\* C14, as written: after reset() the user side stays unmounted and the score
\* stays 0 until the next run(): a step of a run begun before the reset leaves
\* no user root and no score (no run can begin while such a step is pending).
C14_StaysResetUntilRun ==
    StepAfterReset => (UserRoots = {} /\ assessmentScore = 0)
\* C14: the step of reset() sets the user files to the starter content, the
\* score to 0 and the compile error to empty, leaves no root live and sets the
\* step that renders the reference again.
C14_ResetStep ==
    [][lastEvent'.op = "resetCode" =>
          /\ userFiles' = StarterFiles(questionId)
          /\ assessmentScore' = 0
          /\ compilationError' = ""
          /\ roots' = {}
          /\ rootRef' = [side \in Sides |-> 0]
          /\ timers'[Len(timers')].kind = "resetRender"
          /\ timers'[Len(timers')].files = solutionFiles
    ]_vars

LogTags == {"LOG: ", "ERROR: ", "WARN: "}
LogTexts == {"mounted", "deprecated", "Execution error", CompilationErrorMsg}
Tagged(entry) == \E tag \in LogTags, text \in LogTexts : entry = tag \o text
\* the entries the reference render of a run appends
ReferenceLog ==
    executeAndRenderCode(Dom, solutionFiles, "solution", Multiple, container["solution"]).log

\* C15: the step of reset() leaves the console log empty and the step of run()
\* leaves in it only what its reference render appended; every other step that
\* changes the log either empties it (a question change, the Clear button) or
\* appends entries prefixed LOG:, ERROR: or WARN: at its end and keeps every
\* entry it had, in place.
C15_ConsoleLog ==
    [][/\ lastEvent'.op = "resetCode" => consoleOutput' = <<>>
       /\ lastEvent'.op = "runCode" => consoleOutput' = ReferenceLog
       /\ \A i \in 1..Len(consoleOutput') : Tagged(consoleOutput'[i])
       /\ (/\ consoleOutput' # consoleOutput
           /\ lastEvent'.op \notin {"resetCode", "runCode", "questionChange", "clearConsole"}) =>
             /\ Len(consoleOutput') > Len(consoleOutput)
             /\ SubSeq(consoleOutput', 1, Len(consoleOutput)) = consoleOutput
    ]_vars
\* a user step has appended a LOG entry and a WARN entry after it
C15_Witness ==
    /\ Len(consoleOutput) >= 2
    /\ \E i, j \in 1..Len(consoleOutput) :
          /\ i < j
          /\ consoleOutput[i] = "LOG: mounted"
          /\ consoleOutput[j] = "WARN: deprecated"
    /\ lastEvent.op = "userStep"

(***************************************************************************)
(* Claims about the files of the user                                      *)
(***************************************************************************)
\* the entry file bundleFiles takes from a file set, NULL when it has none
EntryFile(files) ==
    IF "App.jsx" \in DOMAIN files THEN "App.jsx"
    ELSE IF "App.js" \in DOMAIN files THEN "App.js"
    ELSE NULL

\* C16, as written: the user files are never empty and hold the entry file of
\* the starter files whenever these have one.
C16_EntryFileKept ==
    /\ DOMAIN userFiles # {}
    /\ EntryFile(StarterFiles(questionId)) # NULL =>
          EntryFile(StarterFiles(questionId)) \in DOMAIN userFiles
\* C16, what holds: the user files are never empty, and App.jsx stays in them
\* when the starter files hold it.
C16_AppJsxKept ==
    /\ DOMAIN userFiles # {}
    /\ "App.jsx" \in DOMAIN StarterFiles(questionId) => "App.jsx" \in DOMAIN userFiles

(***************************************************************************)
(* Claims about the pipeline as a whole                                    *)
(***************************************************************************)
\* the score of what the user files render against what the reference files render
PipelineScore ==
    LET expected == ComponentTree(ProgramSource(solutionFiles, Multiple))
        actual == ComponentTree(ProgramSource(userFiles, Multiple))
    IN calculateAssessmentScore(structuralEqual(expected, actual, TRUE),
                                visualSimilarity(expected, actual, TRUE))

\* C17, as written: under SpecPreview the files never change, so every run is
\* a run on the same pair of file sets, and the run from the initial state
\* stores PipelineScore: every complete run ends with that score stored.
C17_SameScore ==
    lastEvent.op = "compare" => assessmentScore = PipelineScore
\* a complete run that stored the score of the pair
C17_FirstRun ==
    lastEvent.op = "compare" /\ assessmentScore = PipelineScore /\ PipelineScore > 0

(***************************************************************************)
(* Claims about the comparison of texts                                    *)
(***************************************************************************)
RECURSIVE DigitSkeleton(_, _)
\* a text with every run of digits taken for one mark
DigitSkeleton(s, inRun) ==
    IF s = <<>> THEN <<>>
    ELSE IF Head(s) \in Digits
         THEN (IF inRun THEN <<>> ELSE <<"#">>) \o DigitSkeleton(Tail(s), TRUE)
         ELSE <<Head(s)>> \o DigitSkeleton(Tail(s), FALSE)
HasDigit(s) == \E i \in 1..Len(s) : s[i] \in Digits
\* the normalized texts of the two nodes compared
ExpectedText == normalizeText(textContent(fnArgs.expected))
ActualText == normalizeText(textContent(fnArgs.actual))
\* two element nodes were compared whose normalized texts differ, both hold
\* a digit, and are the same once each run of digits is taken for one mark
NumericPair ==
    /\ CompareDone
    /\ isElementNode(fnArgs.expected) /\ isElementNode(fnArgs.actual)
    /\ ExpectedText # ActualText
    /\ HasDigit(ExpectedText) /\ HasDigit(ActualText)
    /\ DigitSkeleton(ExpectedText, FALSE) = DigitSkeleton(ActualText, FALSE)

\* C18: for two normalized texts that differ, both hold a run of digits, and
\* are the same once every run of digits is replaced by one token,
\* calculateTextSimilarity returns exactly 9/10 and structuralEqual emits no
\* textContent diff for the pair.
C18_NumericPattern ==
    NumericPair =>
        /\ calculateTextSimilarity(ExpectedText, ActualText) = Rat(9, 10)
        /\ \A i \in 1..Len(fnOut.diffs) : fnOut.diffs[i].type # "textContent"
C18_Witness ==
    /\ NumericPair
    /\ Len(ExpectedText) # Len(ActualText)
    /\ fnOut.diffs = <<>>
    /\ ~fnArgs.native

(***************************************************************************)
(* Claims about visualSimilarity                                           *)
(***************************************************************************)
VisualDone == fn = "visualSimilarity"
BothElements == isElementNode(fnArgs.expected) /\ isElementNode(fnArgs.actual)

\* C19: visualSimilarity returns a value in [0,1]; when the styles are read,
\* the accumulated score is between 0 and the number of checks performed, and
\* the value is the score divided by the checks; when reading the computed
\* styles throws, the value is exactly 8/10.
C19_VisualRatio ==
    VisualDone =>
        /\ RatLE(RatInt(0), fnOut.value) /\ RatLE(fnOut.value, RatInt(1))
        /\ (BothElements /\ fnArgs.styleOk) =>
              /\ fnOut.totalChecks > 0
              /\ RatLE(RatInt(0), fnOut.score)
              /\ RatLE(fnOut.score, RatInt(fnOut.totalChecks))
              /\ RatEQ(fnOut.value, RatDiv(fnOut.score, fnOut.totalChecks))
        /\ (BothElements /\ ~fnArgs.styleOk) => fnOut.value = Rat(8, 10)
\* two trees with a button each, every check passed: the score is the number of checks
C19_Witness ==
    /\ VisualDone
    /\ BothElements /\ fnArgs.styleOk
    /\ Interactive(fnArgs.expected) # <<>>
    /\ RatEQ(fnOut.score, RatInt(fnOut.totalChecks))
    /\ RatEQ(fnOut.value, RatInt(1))
\* reading the styles threw
C19_WitnessThrow ==
    /\ VisualDone
    /\ BothElements /\ ~fnArgs.styleOk
    /\ fnOut.value = Rat(8, 10)

(***************************************************************************)
(* Claims about the scope of the evaluated program                         *)
(***************************************************************************)
\* a user step mounted what a bundle rendered that names a binding which is
\* not a parameter of the constructed function
ForeignNameStep ==
    /\ lastEvent.op = "userStep"
    /\ lastEvent.mounted
    /\ ~HasPart(lastEvent.program, "SYNTAX")
    /\ ~(FreeNames(lastEvent.program) \subseteq FunctionParameters)

\* C20, as written: only the parameters of the constructed function are
\* reachable from the evaluated bundle, so a bundle that names another binding
\* (window) fails with a ReferenceError and the Runtime Error artifact is mounted.
C20_OnlyParametersReachable ==
    ForeignNameStep => LiveOn("user", TreeRuntimeError)

(***************************************************************************)
(* Claims about the end of a run cycle                                     *)
(***************************************************************************)
\* a comparison step found no root element on one side
ComparedWithoutRoot ==
    /\ lastEvent.op = "compare"
    /\ \E side \in Sides : ~isElementNode(FirstElementChild(Dom, side))

TextEntries == SelectSeq(fnOut.diffs, LAMBDA d : d.type = "textContent")
PairSimilarity == calculateTextSimilarity(ExpectedText, ActualText)
\* both normalized texts are non-empty, they differ, and their similarity
\* is below 8/10
TextDiffDue ==
    /\ ExpectedText # <<>>
    /\ ActualText # <<>>
    /\ ExpectedText # ActualText
    /\ PairSimilarity.n * 10 < 8 * PairSimilarity.d

\* C22: structuralEqual of two elements emits one textContent diff exactly
\* when both normalized texts are non-empty, unequal and of similarity below
\* 0.8; its severity is high when the similarity is below 0.5 and low
\* otherwise; when either text is empty there is no textContent diff.
C22_TextDiff ==
    (CompareDone /\ BothElements) =>
        /\ Len(TextEntries) = (IF TextDiffDue THEN 1 ELSE 0)
        /\ TextDiffDue =>
              /\ TextEntries[1].similarity = PairSimilarity
              /\ TextEntries[1].severity =
                    (IF PairSimilarity.n * 10 < 5 * PairSimilarity.d THEN "high" ELSE "low")
        /\ (ExpectedText = <<>> \/ ActualText = <<>>) => Len(TextEntries) = 0
\* a low diff for a similarity strictly between the thresholds
C22_Witness ==
    /\ CompareDone /\ BothElements
    /\ TextDiffDue
    /\ PairSimilarity = Rat(3, 4)
    /\ Len(TextEntries) = 1
    /\ TextEntries[1].severity = "low"
C22_WitnessHigh ==
    /\ CompareDone /\ BothElements
    /\ TextDiffDue
    /\ Len(TextEntries) = 1
    /\ TextEntries[1].severity = "high"
C22_WitnessAtThreshold ==
    /\ CompareDone /\ BothElements
    /\ ExpectedText # ActualText
    /\ PairSimilarity = Rat(4, 5)
    /\ Len(TextEntries) = 0
C22_WitnessEmptySide ==
    /\ CompareDone /\ BothElements
    /\ ExpectedText = <<>> /\ ActualText # <<>>
    /\ Len(fnOut.diffs) = 0
    /\ ~fnArgs.native

AttrEntries(attr) ==
    SelectSeq(fnOut.diffs, LAMBDA d : d.type = "attribute" /\ d.attribute = attr)
\* the two elements give different values for the attribute; an attribute
\* that is not there has the value NULL, so at least one side defines it
AttrMismatch(attr) == fnArgs.expected.attrs[attr] # fnArgs.actual.attrs[attr]
ComparedAttrs == {"id", "class", "type", "href", "src", "role", "aria-label"}
\* the two elements went through the attribute loop of structuralEqual
AttrsCompared == CompareDone /\ C6_FullyCompared

\* C23: for each attribute of id, class, type, href, src, role, aria-label,
\* structuralEqual emits exactly one attribute diff whenever the two values
\* differ and at least one side defines the attribute, also as the empty
\* string, of severity high for id and medium otherwise, and no attribute
\* diff for any other attribute.
C23_AttributeDiff ==
    AttrsCompared =>
        /\ \A attr \in ComparedAttrs :
              /\ Len(AttrEntries(attr)) = (IF AttrMismatch(attr) THEN 1 ELSE 0)
              /\ AttrMismatch(attr) =>
                    AttrEntries(attr)[1].severity = (IF attr = "id" THEN "high" ELSE "medium")
        /\ \A attr \in AttrNames \ ComparedAttrs : Len(AttrEntries(attr)) = 0
\* the same with the empty string counted as no value, as the code's
\* condition (expectedVal || actualVal) does
AttrMismatchNonEmpty(attr) ==
    /\ AttrMismatch(attr)
    /\ \/ fnArgs.expected.attrs[attr] \notin {NULL, ""}
       \/ fnArgs.actual.attrs[attr] \notin {NULL, ""}
C23_NonEmptyAttributeDiff ==
    AttrsCompared =>
        /\ \A attr \in ComparedAttrs :
              /\ Len(AttrEntries(attr)) = (IF AttrMismatchNonEmpty(attr) THEN 1 ELSE 0)
              /\ AttrMismatchNonEmpty(attr) =>
                    AttrEntries(attr)[1].severity = (IF attr = "id" THEN "high" ELSE "medium")
        /\ \A attr \in AttrNames \ ComparedAttrs : Len(AttrEntries(attr)) = 0
\* id="" against no id: the values differ, one side defines the attribute,
\* and the comparison reports nothing
C23_EmptyIdIgnored ==
    /\ AttrsCompared
    /\ fnArgs.expected.attrs["id"] = ""
    /\ fnArgs.actual.attrs["id"] = NULL
    /\ Len(fnOut.diffs) = 0
    /\ fnOut.equal
C23_WitnessOutside ==
    /\ AttrsCompared
    /\ fnArgs.expected.attrs["title"] # fnArgs.actual.attrs["title"]
    /\ Len(fnOut.diffs) = 0

ExpectedKids == SelectSeq(fnArgs.expected.childNodes, LAMBDA n : n.nodeType = 1)
ActualKids == SelectSeq(fnArgs.actual.childNodes, LAMBDA n : n.nodeType = 1)
ShorterKids == IF Len(ExpectedKids) < Len(ActualKids) THEN Len(ExpectedKids) ELSE Len(ActualKids)
CountGap ==
    IF Len(ExpectedKids) < Len(ActualKids)
    THEN Len(ActualKids) - Len(ExpectedKids)
    ELSE Len(ExpectedKids) - Len(ActualKids)
CountEntries == SelectSeq(fnOut.diffs, LAMBDA d : d.type = "childrenCount")
ChildEntries(i) ==
    SelectSeq(fnOut.diffs, LAMBDA d : d.type = "childStructure" /\ d.index = i)
\* the comparison of the pair of children at position i, counted from 0
ChildResult(i) == structuralEqual(ExpectedKids[i + 1], ActualKids[i + 1], fnArgs.native)

\* C24: structuralEqual emits one medium childrenCount diff exactly when the
\* numbers of element children differ by more than 1; it compares the
\* children by position up to the shorter list and emits one medium
\* childStructure diff, carrying the diffs of the pair, exactly for the
\* positions whose comparison is not equal; children beyond the shorter list
\* produce no diff of their own.
C24_ChildDiffs ==
    AttrsCompared =>
        /\ Len(CountEntries) = (IF CountGap > 1 THEN 1 ELSE 0)
        /\ \A k \in 1..Len(CountEntries) :
              /\ CountEntries[k].severity = "medium"
              /\ CountEntries[k].expected = Len(ExpectedKids)
              /\ CountEntries[k].actual = Len(ActualKids)
        /\ \A i \in 0..(ShorterKids - 1) :
              /\ Len(ChildEntries(i)) = (IF ChildResult(i).equal THEN 0 ELSE 1)
              /\ \A k \in 1..Len(ChildEntries(i)) :
                    /\ ChildEntries(i)[k].severity = "medium"
                    /\ ChildEntries(i)[k].childDiffs = ChildResult(i).diffs
        /\ \A i \in ShorterKids..(MaxKids + 1) : Len(ChildEntries(i)) = 0
\* one child more on one side, within the tolerance, and the first pair of
\* children differs
C24_Witness ==
    /\ AttrsCompared
    /\ CountGap = 1
    /\ ShorterKids = 1
    /\ Len(CountEntries) = 0
    /\ Len(ChildEntries(0)) = 1
    /\ Len(ChildEntries(0)[1].childDiffs) > 0
    /\ Len(ChildEntries(1)) = 0
C24_WitnessCount ==
    /\ AttrsCompared
    /\ CountGap = 2
    /\ Len(CountEntries) = 1
    /\ \A k \in 1..Len(fnOut.diffs) : fnOut.diffs[k].type # "childStructure"
C24_WitnessSecondPair ==
    /\ AttrsCompared
    /\ ShorterKids = 2
    /\ Len(ChildEntries(0)) = 0
    /\ Len(ChildEntries(1)) = 1

RECURSIVE HighPairBelow(_, _, _)
\* the comparison of the pair, or of a pair of children at the same position
\* at any depth below it, yields a diff of severity high
HighPairBelow(expected, actual, native) ==
    LET expectedChildren == SelectSeq(expected.childNodes, LAMBDA n : n.nodeType = 1)
        actualChildren == SelectSeq(actual.childNodes, LAMBDA n : n.nodeType = 1)
        res == structuralEqual(expected, actual, native)
    IN \/ \E k \in 1..Len(res.diffs) : res.diffs[k].severity = "high"
       \/ \E i \in 1..Len(expectedChildren) :
             /\ i <= Len(actualChildren)
             /\ HighPairBelow(expectedChildren[i], actualChildren[i], native)

\* C25: when the comparison of any pair of corresponding descendants, at any
\* depth, yields a diff of severity high (a tag-name mismatch, say), the
\* result for the root pair has equal = false.
C25_HighDiffPropagates ==
    (AttrsCompared /\ HighPairBelow(fnArgs.expected, fnArgs.actual, fnArgs.native))
        => ~fnOut.equal
\* a tag-name mismatch between grandchildren: the child pair is equal with
\* one medium diff, and the root pair is equal with no diff at all
C25_HiddenHighDiff ==
    /\ AttrsCompared
    /\ Len(ExpectedKids) = 1 /\ Len(ActualKids) = 1
    /\ HighPairBelow(ExpectedKids[1], ActualKids[1], fnArgs.native)
    /\ ChildResult(0).equal
    /\ Len(ChildResult(0).diffs) = 1
    /\ fnOut.equal
    /\ Len(fnOut.diffs) = 0
\* a tag-name mismatch between children: the root pair is equal with one
\* medium childStructure diff
C25_WrappedHighDiff ==
    /\ AttrsCompared
    /\ ShorterKids >= 1
    /\ \E k \in 1..Len(ChildResult(0).diffs) : ChildResult(0).diffs[k].type = "tagName"
    /\ fnOut.equal
    /\ Len(fnOut.diffs) = 1
    /\ fnOut.diffs[1].severity = "medium"

(***************************************************************************)
(* Claims about the file operations and the compile-error flag             *)
(***************************************************************************)
\* C26: createNewFile never changes the content of a file that is already in
\* the user files: when the resolved filename (the typed name, with .jsx
\* appended when it has no extension) is already a key, App.jsx and files of
\* empty content included, the user files are left as they are.
C26_ExistingFilesKept ==
    [][lastEvent'.op = "createNewFile" =>
          \A f \in DOMAIN userFiles : f \in DOMAIN userFiles' /\ userFiles'[f] = userFiles[f]]_vars
\* what createNewFile keeps: every file but the one it names, which becomes
\* the active file
C26_OtherFilesKept ==
    [][lastEvent'.op = "createNewFile" =>
          /\ DOMAIN userFiles' = DOMAIN userFiles \cup {activeFile'}
          /\ \A f \in DOMAIN userFiles \ {activeFile'} : userFiles'[f] = userFiles[f]]_vars
\* "no step replaces a component by the template" and "no step replaces an
\* empty App.jsx by the template": both are refuted, the first by a typed
\* name without extension, the second by the name of the empty file
C26_Overwrite ==
    [][~(/\ lastEvent'.op = "createNewFile"
         /\ activeFile' \in DOMAIN userFiles
         /\ userFiles[activeFile'] = "CompA"
         /\ userFiles'[activeFile'] = "NEW")]_vars
C26_OverwriteEmpty ==
    [][~(/\ lastEvent'.op = "createNewFile"
         /\ activeFile' = "App.jsx"
         /\ "App.jsx" \in DOMAIN userFiles
         /\ userFiles["App.jsx"] = ""
         /\ userFiles'["App.jsx"] = "NEW")]_vars

\* the last step was the user step of a run, and it succeeded: it scheduled
\* the comparison
UserStepSucceeded == lastEvent.op = "userStep" /\ lastEvent.scheduled

\* C27: after a run whose user-side transform and transpile succeed,
\* compilationError is empty: the flag is set only when the most recent
\* execution of the user code failed, whatever edits, file creations, file
\* deletions or runs came before.
C27_ErrorClearedBySuccess == UserStepSucceeded => compilationError = ""

\* the flag is still set after a successful run of the entry file alone,
\* the file that failed having been deleted
C27_SetAfterDeletion ==
    /\ UserStepSucceeded
    /\ compilationError # ""
    /\ DOMAIN userFiles = {"App.js"}
    /\ userFiles["App.js"] = "CompB"

(***************************************************************************)
(* Claims about AssessmentRunner                                           *)
(***************************************************************************)
\* C28: once the questions are loaded, 0 <= currentQuestionIndex <
\* questions.length in every reachable state, under any interleaving of
\* Previous and Next clicks, submissions and the delayed move to the next
\* question that follows a submission.
C28_IndexInRange == page.currentQuestionIndex \in 0..(NumQuestions - 1)
\* what holds: the index is at most one past the last question
C28_IndexAtMostOnePast == page.currentQuestionIndex \in 0..NumQuestions
\* the move that follows the submission of the first question fired after a
\* click on Next
C28_AdvancedPastEnd ==
    /\ page.currentQuestionIndex = NumQuestions
    /\ page.crashed
    /\ 1 \in completed
    /\ questionId = NumQuestions

\* a step that called submitFinalAssessment
FinalCalled == page'.finalCalls > page.finalCalls

\* C29: submitFinalAssessment is invoked only when every question of the
\* assessment has been submitted (every entry of completedQuestions is
\* true), so the questionScores it persists hold a submitted score for each
\* question, and it is invoked at most once in a session.
C29_FinalSubmission ==
    /\ [][FinalCalled => completed' = QuestionIds]_vars
    /\ [](page.finalCalls <= 1)
\* what holds: the call comes with the submission of the last question, at
\* most once, and a stored document holds the score of the last question
C29_OncePerSession ==
    /\ [][FinalCalled => (NumQuestions \in completed' /\ NumQuestions \notin completed)]_vars
    /\ [](/\ page.finalCalls <= 1
          /\ Len(page.submissions) <= page.finalCalls
          /\ \A k \in 1..Len(page.submissions) :
                page.submissions[k][NumQuestions] = page.questionScores[NumQuestions])
\* the final submission was stored while the first question was never
\* submitted: its score in the document is the initial 0
C29_StoredWithoutFirst ==
    /\ Len(page.submissions) = 1
    /\ 1 \notin completed
    /\ page.submissions[1][1] = 0
    /\ page.currentQuestionIndex = NumQuestions - 1

(***************************************************************************)
(* Claims about the session                                                *)
(***************************************************************************)
\* the last step was the write of login over a document that was there
LoginOverProfile == auth.last.op = "login" /\ auth.last.before # NoProfile

\* C30: login leaves the stored profile of an existing user as it was:
\* after any sequence of register, login and logout the role, the name, the
\* completed assessments and the total score stored for the user are those
\* they had before the login, so a stored administrator is still one after
\* logging in.
C30_LoginKeepsProfile ==
    LoginOverProfile =>
        LET stored == auth.users[auth.last.uid]
            before == auth.last.before
        IN /\ stored.role = before.role
           /\ stored.name = before.name
           /\ stored.assessmentCompleted = before.assessmentCompleted
           /\ stored.assessmentsCompleted = before.assessmentsCompleted
           /\ stored.totalScore = before.totalScore
\* what login does to the document: it is the profile of a new user
C30_LoginResetsProfile ==
    (auth.last.op = "login") =>
        auth.users[auth.last.uid] = Profile(auth.last.uid, "user", WindowName, {})
\* an administrator with a completed assessment logged in: the document
\* now has role user, no name and no completed assessment, and once the
\* session has settled the administrator routes redirect to the dashboard
C30_AdminDemoted ==
    /\ LoginOverProfile
    /\ auth.last.before.role = "admin"
    /\ auth.last.before.name = "Ann"
    /\ auth.last.before.assessmentsCompleted = {AssessmentId}
    /\ auth.users[auth.last.uid].role = "user"
    /\ auth.users[auth.last.uid].name = ""
    /\ auth.users[auth.last.uid].assessmentsCompleted = {}
    /\ auth.pending = <<>>
    /\ ProtectedRoute(TRUE) = "/dashboard"
    /\ ProtectedRoute(FALSE) = "Outlet"
====
